---- MODULE Spec2Model ----
(***************************************************************************)
(* State-machine model of the STIG hardening session.                      *)
(*                                                                         *)
(* Two front ends drive a session:                                         *)
(*   - orchestrator.py  run()            ("distributed": HTTP services)    *)
(*   - agent.py         run_local_mode() ("local": in-process tools)       *)
(* Both walk the same phases: scan, batch triage, per-finding approval     *)
(* loop, and (distributed only) a validating re-scan with a final report.  *)
(* The scanner service's job table, the remediation service's tracker and  *)
(* the compliance tracker's history are modelled as the state they keep.   *)
(***************************************************************************)
EXTENDS Integers, Sequences, FiniteSets, TLC

(***************************************************************************)
(* Bounds of the model.                                                    *)
(***************************************************************************)
\* longest report (number of rule-result elements) a scan may produce
MaxRules == 2
\* number of sleeps poll_scan may take before its deadline has passed
MaxPolls == 2
\* largest delay (seconds) between the executor ending and the HTTP
\* response of /apply reaching the orchestrator
MaxOverhead == 1
\* number of /apply requests the remediation service handles in SpecService
MaxRequests == 3
\* record_scan calls made on the shared ledger, over all trackers
MaxAppends == 3
\* rule-result elements of a report handed to the parser on its own
MaxResults == 3
\* tasks of a task list handed to generate_playbook
MaxTasks == 2
\* lines the approval prompt refuses in one run
MaxRejects == 1

(***************************************************************************)
(* Program constants.                                                      *)
(***************************************************************************)
\* subprocess.run(..., timeout=120) in apply_playbook
PLAYBOOK_TIMEOUT == 120
\* _post(f"{REMEDIATION_URL}/apply", ..., timeout=120)
APPLY_HTTP_TIMEOUT == 120
NoAttr == "<absent>"

(***************************************************************************)
(* tools/scanner.py : the report parser                                    *)
(***************************************************************************)
\* SEVERITY_MAP.get(severity_raw.lower(), "CAT II")
Lower(s) ==
    CASE s = "HIGH"   -> "high"
      [] s = "Medium" -> "medium"
      [] s = "LOW"    -> "low"
      [] OTHER        -> s

\* variant: the raw severity is looked up as it is spelled
SEVERITY_MAP_CaseSensitive(raw) ==
    CASE raw = "high"   -> "CAT I"
      [] raw = "medium" -> "CAT II"
      [] raw = "low"    -> "CAT III"
      [] OTHER          -> "CAT II"

SEVERITY_MAP(raw) ==
    CASE Lower(raw) = "high"   -> "CAT I"
      [] Lower(raw) = "medium" -> "CAT II"
      [] Lower(raw) = "low"    -> "CAT III"
      [] OTHER                 -> "CAT II"

\* CAT_PRIORITY.get(severity, 0)
CAT_PRIORITY(sev) ==
    CASE sev = "CAT I"   -> 3
      [] sev = "CAT II"  -> 2
      [] sev = "CAT III" -> 1
      [] OTHER           -> 0

\* min_map.get(min_severity, 2)
min_map(min_severity) ==
    CASE min_severity = "CAT_I"   -> 3
      [] min_severity = "CAT_II"  -> 2
      [] min_severity = "CAT_III" -> 1
      [] min_severity = "ALL"     -> 0
      [] OTHER                    -> 2

\* variant: the floor itself is excluded
meets_severity_Strict(severity, min_severity) ==
    CAT_PRIORITY(severity) > min_map(min_severity)

meets_severity(severity, min_severity) ==
    CAT_PRIORITY(severity) >= min_map(min_severity)

\* A report is either a marker (file absent) or a
\* record [kind |-> "xml", defs, results]: defs maps a rule id to the severity attribute of
\* its Rule element (NoAttr when the report holds no such Rule), results is
\* the sequence of rule-result elements in document order, each
\* [idref, result, severity] with NoAttr for a missing attribute/element.
ReportNotFound == [kind |-> "not_found"]

\* rr.get("idref", "unknown")
RuleIdOf(rr) == IF rr.idref = NoAttr THEN "unknown" ELSE rr.idref

\* rr.get("severity", rule_def.get("severity", "medium")), then SEVERITY_MAP
SeverityOf(rep, rr) ==
    LET rid == RuleIdOf(rr)
        def == IF rid \in DOMAIN rep.defs THEN rep.defs[rid] ELSE NoAttr
        raw == IF rr.severity # NoAttr THEN rr.severity
               ELSE IF def # NoAttr THEN def ELSE "medium"
    IN  SEVERITY_MAP(raw)

\* variant: every rule-result that did not pass is kept
RECURSIVE CollectFindings_KeepsNotPass(_, _, _)
CollectFindings_KeepsNotPass(rep, rrs, min_severity) ==
    IF rrs = <<>> THEN <<>>
    ELSE LET rr   == Head(rrs)
             rest == CollectFindings_KeepsNotPass(rep, Tail(rrs), min_severity)
             sev  == SeverityOf(rep, rr)
         IN  IF rr.result = "pass" THEN rest
             ELSE IF ~meets_severity(sev, min_severity) THEN rest
             ELSE <<[rule_id |-> RuleIdOf(rr), severity |-> sev]>> \o rest

RECURSIVE CollectFindings(_, _, _)
CollectFindings(rep, rrs, min_severity) ==
    IF rrs = <<>> THEN <<>>
    ELSE LET rr   == Head(rrs)
             rest == CollectFindings(rep, Tail(rrs), min_severity)
             sev  == SeverityOf(rep, rr)
         IN  IF rr.result # "fail" THEN rest
             ELSE IF ~meets_severity(sev, min_severity) THEN rest
             ELSE <<[rule_id |-> RuleIdOf(rr), severity |-> sev]>> \o rest

Band(fs, p) == SelectSeq(fs, LAMBDA f : CAT_PRIORITY(f.severity) = p)

\* variant: the findings stay in document order
SortFindings_Unsorted(fs) == fs

RECURSIVE Reverse(_)
Reverse(seq) == IF seq = <<>> THEN <<>> ELSE Reverse(Tail(seq)) \o <<Head(seq)>>

\* variant: the sort is not stable, equal findings come out back to front
SortFindings_Unstable(fs) ==
    Reverse(Band(fs, 3)) \o Reverse(Band(fs, 2)) \o Reverse(Band(fs, 1))
        \o Reverse(Band(fs, 0))

\* findings.sort(key=lambda f: f.cat_priority, reverse=True): a stable sort
SortFindings(fs) == Band(fs, 3) \o Band(fs, 2) \o Band(fs, 1) \o Band(fs, 0)

\* parse_results on a report that exists and is well-formed, and on a missing
\* one (returns []); a malformed one raises (handled by the callers).
parse_results(rep, min_severity) ==
    IF rep.kind = "not_found" THEN <<>>
    ELSE SortFindings(CollectFindings(rep, rep.results, min_severity))

CountResult(rrs, r) == Len(SelectSeq(rrs, LAMBDA rr : rr.result = r))

\* round(pass / total_checked * 100, 1), kept in tenths of a percent
ScoreTenths(p, f) ==
    IF p + f > 0
    THEN LET q == (p * 1000) \div (p + f)
             r == (p * 1000) % (p + f)
         IN  IF 2 * r > (p + f) THEN q + 1
             ELSE IF 2 * r < (p + f) THEN q
             ELSE IF q % 2 = 0 THEN q ELSE q + 1
    ELSE 0

\* {} for a missing report; score.get(k, 0) / score["k"] are read by callers
EmptyScore == [present |-> FALSE, score |-> 0, pass |-> 0, fail |-> 0]

\* variant: every rule-result that has a result counts as checked
get_compliance_score_CountsAll(rep) ==
    IF rep.kind = "not_found" THEN EmptyScore
    ELSE LET p == CountResult(rep.results, "pass")
             f == CountResult(rep.results, "fail")
             n == Len(rep.results) - CountResult(rep.results, NoAttr)
         IN  [present |-> TRUE, score |-> ScoreTenths(p, n - p),
              pass |-> p, fail |-> f]

get_compliance_score(rep) ==
    IF rep.kind = "not_found" THEN EmptyScore
    ELSE LET p == CountResult(rep.results, "pass")
             f == CountResult(rep.results, "fail")
         IN  [present |-> TRUE, score |-> ScoreTenths(p, f),
              pass |-> p, fail |-> f]

(***************************************************************************)
(* agents/compliance_agent.py : the ledger entry built by record_scan      *)
(***************************************************************************)
\* a variant that counts every finding under each severity
CountSeverity_AnySeverity(fs, sev) == Len(fs)

CountSeverity(fs, sev) == Len(SelectSeq(fs, LAMBDA f : f.severity = sev))

\* the entry record_scan appends (the timestamp is left out)
LedgerEntry(score, fs, applied_fixes) ==
    [score         |-> score.score,
     fail_count    |-> score.fail,
     pass_count    |-> score.pass,
     cat1_fails    |-> CountSeverity(fs, "CAT I"),
     cat2_fails    |-> CountSeverity(fs, "CAT II"),
     cat3_fails    |-> CountSeverity(fs, "CAT III"),
     applied_fixes |-> applied_fixes]

(***************************************************************************)
(* Inputs                                                                  *)
(***************************************************************************)
Modes == {"distributed", "local"}
MinSeverities == {"CAT_II", "ALL"}
RuleIds == {"r1", "r2"}
RuleResults == [idref : RuleIds, result : {"fail", "pass"},
                severity : {"high", "low"}]
NoDefs == [r \in RuleIds |-> NoAttr]

SeqsUpTo(S, n) == UNION {[1..k -> S] : k \in 0..n}

\* well-formed reports a scan may produce
Reports == {[kind |-> "xml", defs |-> NoDefs, results |-> rrs] :
               rrs \in SeqsUpTo(RuleResults, MaxRules)}

\* variant: the score counts only the failures at or above the floor
ScanOutcome_FlooredScore(rep, min_sev) ==
    LET fs == parse_results(rep, min_sev)
        p  == IF rep.kind = "not_found" THEN 0
              ELSE CountResult(rep.results, "pass")
    IN  [findings |-> fs,
         score    |-> IF rep.kind = "not_found" THEN EmptyScore
                      ELSE [present |-> TRUE, score |-> ScoreTenths(p, Len(fs)),
                            pass |-> p, fail |-> Len(fs)]]

\* what parse_results and get_compliance_score make of one report
ScanOutcome(rep, min_sev) ==
    [findings |-> parse_results(rep, min_sev),
     score    |-> get_compliance_score(rep)]

ScanOutcomes[min_sev \in MinSeverities] ==
    {ScanOutcome(rep, min_sev) : rep \in Reports}

Decisions == {"apply", "skip", "quit"}
\* how one ansible-playbook run ends: exit status 0, another exit status,
\* FileNotFoundError, subprocess.TimeoutExpired
ExecOutcomes == {"exit0", "nonzero", "not_found", "timeout"}

NoPending == [idx |-> 0, rule_id |-> NoAttr]
NoError == [at |-> "none", msg |-> <<>>]

(***************************************************************************)
(* State                                                                   *)
(***************************************************************************)
VARIABLES
    mode,            \* which front end runs the session
    dry_run,         \* session dry-run: args.dry_run (or DRY_RUN of the orchestrator)
    remediator_dry_run, \* dry_run of the STIGRemediator that applies playbooks
    min_severity,    \* MIN_SEVERITY of the scanner
    pc,              \* position of the front end in run() / run_local_mode()
    jobs,            \* scanner service: _jobs, in creation order
    polls,           \* poll_scan: sleeps taken in the current polling loop
    findings,        \* findings of the baseline scan
    before_score, after_score,
    i,               \* enumerate(findings, 1): index of the current finding
    pending,         \* the finding presented for approval, NoPending if none
    applied, skipped, failed,   \* the session's outcome lists
    svc_applied, svc_failed,    \* remediation service: remediator._applied/_failed
    playbooks,       \* rule ids of the playbook files written so far
    runs,            \* executor invocations so far: [idx, rule_id, check]
    last_outcome,    \* the executor: "running", how its last run ended, or
                     \* "none" (never run, or the result has been consumed)
    apply_status,    \* HTTP status of the last /apply response (0: none yet)
    apply_requests,  \* "confirmed" flag of every /apply request received
    history,         \* compliance tracker: history
    error,           \* the error that ended the session, NoError if none
    decisions,       \* decisions taken at the approval gate, in order
    report_confirm,  \* answer to "Generate final compliance report?"
    proceed_confirm, \* answer to "Proceed to remediation?"
    \* a compliance ledger shared by several trackers
    history_file,    \* compliance_history.json: [state, entries]
    trackers,        \* each ComplianceTracker: [up, history, writing]
    returned,        \* entries whose record_scan has returned, in order
    improvement,     \* the last answer of get_improvement: [by, result]
    \* the docker-mode client (agent.py run_docker_mode) and its server
    docker_pc,       \* position of the client in run_docker_mode()
    session,         \* the orchestrator service's session, as GET returns it
    last_phase,      \* client: last phase printed
    last_pending,    \* client: last pending record presented (0: None)
    approvals,       \* decisions the client has posted: [idx, decision]
    \* the report parser on its own
    parser_pc,       \* "ready", "parsed", "scored" ("off" elsewhere)
    report,          \* the report handed to parse_results
    floor,           \* its min_severity argument
    parsed,          \* what parse_results returned
    parsed_score,    \* what get_compliance_score returned
    \* generate_playbook on its own
    pb_pc,           \* "called", "written" ("off" elsewhere)
    pb_finding,      \* its finding argument
    task_yaml,       \* its task_yaml argument: the text shown at the gate
    tasks,           \* the "tasks" value of the playbook it wrote
    \* the approval prompt
    rejected         \* lines Prompt.ask has refused at the gate, in order

sessionVars == <<mode, dry_run, min_severity, pc, jobs, polls, findings,
                 before_score, after_score, i, pending, applied, skipped,
                 failed, history, error, decisions, report_confirm,
                 proceed_confirm>>
ledgerVars == <<history_file, trackers, returned, improvement>>
dockerVars == <<docker_pc, session, last_phase, last_pending, approvals>>
parserVars == <<parser_pc, report, floor, parsed, parsed_score>>
playbookVars == <<pb_pc, pb_finding, task_yaml, tasks>>
promptVars == <<rejected>>
otherVars == <<ledgerVars, dockerVars, parserVars, playbookVars, promptVars>>
serviceVars == <<remediator_dry_run, svc_applied, svc_failed, playbooks,
                 runs, last_outcome, apply_status, apply_requests>>
vars == <<sessionVars, serviceVars, otherVars>>

(***************************************************************************)
(* agents/compliance_agent.py : ComplianceTracker on a shared history file *)
(***************************************************************************)
\* processes that construct a ComplianceTracker on the same REPORTS_DIR:
\* the compliance service (module-level tracker) and a local-mode run
Trackers == {"t1", "t2"}

\* compliance_history.json: absent, holding the JSON of a history, or
\* holding text that json.load rejects (empty after open(.., "w"), or the
\* remains of overlapping writes)
NoFile == [state |-> "absent", entries |-> <<>>]
InvalidFile == [state |-> "invalid", entries |-> <<>>]
JsonFile(h) == [state |-> "json", entries |-> h]

\* a process without a tracker; load tells how its last construction ended
TrackerDown(load) ==
    [up |-> FALSE, history |-> <<>>, writing |-> FALSE, load |-> load]

\* the scores record_scan is called with: (pass, fail) of the scan
LedgerScores ==
    {[present |-> TRUE, score |-> ScoreTenths(pf[1], pf[2]),
      pass |-> pf[1], fail |-> pf[2]] : pf \in {<<4, 6>>, <<7, 3>>}}

\* the entry of record_scan with its timestamp
StampedEntry(now, score, fs, applied_fixes) ==
    [timestamp |-> now] @@ LedgerEntry(score, fs, applied_fixes)

\* {} of get_improvement
NoData == [kind |-> "no_data"]

\* get_improvement: first = history[0], last = history[-1]; the scores are
\* tenths of a percent, so round(.., 1) of their difference is exact
get_improvement_LastTwo(h) ==
    IF Len(h) < 2 THEN NoData
    ELSE LET first == h[Len(h) - 1]
             last  == h[Len(h)]
         IN  [kind           |-> "improvement",
              score_delta    |-> last.score - first.score,
              failures_fixed |-> first.fail_count - last.fail_count,
              first_score    |-> first.score,
              last_score     |-> last.score,
              scan_count     |-> Len(h)]

get_improvement(h) ==
    IF Len(h) < 2 THEN NoData
    ELSE LET first == h[1]
             last  == h[Len(h)]
         IN  [kind           |-> "improvement",
              score_delta    |-> last.score - first.score,
              failures_fixed |-> first.fail_count - last.fail_count,
              first_score    |-> first.score,
              last_score     |-> last.score,
              scan_count     |-> Len(h)]

NoImprovement == [by |-> "none", op |-> "none", result |-> NoData]

\* no tracker has been constructed and the history file does not exist
LedgerIdle ==
    /\ history_file = NoFile
    /\ trackers = [t \in Trackers |-> TrackerDown("none")]
    /\ returned = <<>>
    /\ improvement = NoImprovement

(***************************************************************************)
(* agent.py : the docker-mode client                                       *)
(***************************************************************************)
\* no session has been started on the orchestrator service
NoSession ==
    [phase |-> "none", total |-> 0, pending |-> 0, decision |-> "none",
     any_applied |-> FALSE]

\* decision = "apply" if choice in ("apply", "a") else "skip"
DockerDecisions == {"apply", "skip"}

\* the docker-mode client is not running
DockerIdle ==
    /\ docker_pc = "off"
    /\ session = NoSession
    /\ last_phase = "None"
    /\ last_pending = 0
    /\ approvals = <<>>

(***************************************************************************)
(* tools/scanner.py : inputs of the parser taken on its own                *)
(***************************************************************************)
\* min_severity values the callers pass
Floors == {"CAT_I", "CAT_II", "CAT_III", "ALL"}

\* rule-result elements: the text of the result element (NoAttr: there is
\* none) and the severity attribute (NoAttr: absent, the default applies)
ParserResults ==
    [idref : {"r1"},
     result : {"fail", "pass", "notchecked", "error", NoAttr},
     severity : {"HIGH", "low", NoAttr}]

ParserReports ==
    {[kind |-> "xml", defs |-> NoDefs, results |-> rrs] :
        rrs \in SeqsUpTo(ParserResults, MaxResults)}

\* failing rule-results that differ in what a finding is built from: the
\* idref attribute (NoAttr: absent, "": present and empty) and the severity
\* attribute in the spellings reports and hand-made files carry
FindingResults ==
    [idref : {"r1", "r2", "", NoAttr},
     result : {"fail"},
     severity : {"HIGH", "Medium", "low", "critical", NoAttr}]

FindingReports ==
    {[kind |-> "xml", defs |-> NoDefs, results |-> rrs] :
        rrs \in SeqsUpTo(FindingResults, MaxResults)}

\* no report is being parsed
ParserIdle ==
    /\ parser_pc = "off"
    /\ report = ReportNotFound
    /\ floor = "ALL"
    /\ parsed = <<>>
    /\ parsed_score = EmptyScore

(***************************************************************************)
(* tools/remediator.py : generate_playbook taken on its own                *)
(***************************************************************************)
\* what yaml.safe_load makes of a text: it raises yaml.YAMLError, or returns
\* a mapping, a scalar (a plain string, a number, None for an empty text)
\* or a sequence of such values
YamlError == [kind |-> "error"]
YamlMappings == [kind : {"mapping"}, name : {"t1", "t2"}]
YamlScalars == [kind : {"scalar"}, type : {"str", "int", "null"}]
YamlItems == YamlMappings \cup {[kind |-> "scalar", type |-> "str"]}
YamlSeqs == {[kind |-> "seq", items |-> its] : its \in SeqsUpTo(YamlItems, MaxTasks)}
TaskTexts == {YamlError} \cup YamlMappings \cup YamlScalars \cup YamlSeqs

PlaybookFindings == [rule_id : RuleIds, fix_text : {"fix1", "fix2"}]
NoFinding == [rule_id |-> NoAttr, fix_text |-> NoAttr]
NoTasks == [kind |-> "none"]

\* the except branch: one shell step that wraps finding.fix_text
FallbackTask(finding) ==
    [kind |-> "mapping", name |-> <<"Apply fix for", finding.rule_id>>,
     shell |-> finding.fix_text, become |-> TRUE]

\* variant: the shell step built from fix_text is used whatever the text is
task_block_AlwaysFallback(finding, text) ==
    [kind |-> "seq", items |-> <<FallbackTask(finding)>>]

\* lines 43-53: task_block as it is put under "tasks"
task_block(finding, text) ==
    IF text.kind = "error"
    THEN [kind |-> "seq", items |-> <<FallbackTask(finding)>>]
    ELSE IF text.kind = "mapping"
    THEN [kind |-> "seq", items |-> <<text>>]
    ELSE text

\* generate_playbook is not running
PlaybookIdle ==
    /\ pb_pc = "off"
    /\ pb_finding = NoFinding
    /\ task_yaml = YamlError
    /\ tasks = NoTasks

(***************************************************************************)
(* The approval prompt: Prompt.ask(choices=..., default="skip")            *)
(***************************************************************************)
\* lines an operator may type at the prompt ("" is Enter alone)
PromptLines == {"apply", "skip", "quit", "a", "s", "q", "", "Apply", "x"}
\* orchestrator.py 117 / agent.py 287, and agent.py 176 (docker mode)
GateChoices == {"apply", "skip", "quit", "a", "s", "q"}
DockerChoices == {"apply", "skip", "a", "s"}

\* Prompt.ask returns a line that is one of the choices, and the default for
\* an empty line; it refuses any other line and asks again
Refused(choices) == PromptLines \ (choices \cup {""})

PromptIdle == rejected = <<>>

Init ==
    /\ mode \in Modes
    /\ dry_run \in BOOLEAN
    /\ remediator_dry_run \in BOOLEAN
    \* local mode: STIGRemediator(PLAYBOOKS_DIR, dry_run=args.dry_run)
    /\ mode = "local" => remediator_dry_run = dry_run
    /\ min_severity \in MinSeverities
    /\ pc = "start"
    /\ jobs = <<>>
    /\ polls = 0
    /\ findings = <<>>
    /\ before_score = EmptyScore
    /\ after_score = EmptyScore
    /\ i = 0
    /\ pending = NoPending
    /\ applied = <<>> /\ skipped = <<>> /\ failed = <<>>
    /\ svc_applied = <<>> /\ svc_failed = <<>>
    /\ playbooks = <<>>
    /\ runs = <<>>
    /\ last_outcome = "none"
    /\ apply_status = 0
    /\ apply_requests = <<>>
    /\ history = <<>>
    /\ error = NoError
    /\ decisions = <<>>
    /\ report_confirm = "unasked"
    /\ proceed_confirm = "unasked"
    /\ LedgerIdle
    /\ DockerIdle
    /\ ParserIdle
    /\ PlaybookIdle
    /\ PromptIdle

(***************************************************************************)
(* Helpers shared by the actions                                           *)
(***************************************************************************)
\* variant: the exception ends the front end and its message is dropped
Crash_LosesMessage(at, msg) ==
    /\ pc' = "crashed"
    /\ error' = [at |-> at, msg |-> <<>>]

\* an unhandled exception ends the front end; its message is kept
Crash(at, msg) ==
    /\ pc' = "crashed"
    /\ error' = [at |-> at, msg |-> msg]

\* sys.exit(code)
Exit(code) ==
    /\ pc' = IF code = 0 THEN "exit0" ELSE "exit1"
    /\ error' = error

\* variant: the loop walks the list from its end
CurrentRule_Reversed == findings[Len(findings) + 1 - i].rule_id

\* the rule id of the finding the loop is at
CurrentRule == findings[i].rule_id

\* the for loop moves to the next finding, or ends
NextFinding ==
    /\ i' = i + 1
    /\ pc' = IF i < Len(findings) THEN "analyze" ELSE "after_loop"

\* an engine failure as the caller sees it.  Distributed: the service's _ask
\* raises HTTPException(503, "LLM error: <e>") and raise_for_status() raises
\* in the orchestrator; local: ask_llm lets the client's exception through.
EngineErrors == {<<>>, <<"connection refused">>}

EngineFailure(e) ==
    IF mode = "distributed"
    THEN <<"503 Server Error", "LLM error: ">> \o e
    ELSE <<"ConnectionError">> \o e

NewJob(given) ==
    [status |-> "queued", results_xml |-> given, findings |-> <<>>,
     score |-> EmptyScore, error |-> <<>>]

(***************************************************************************)
(* services/scanner_service.py : the scan job                              *)
(***************************************************************************)
\* _run_scan starts: status "running"
RunScanBegin ==
    \E j \in 1..Len(jobs) :
       /\ jobs[j].status = "queued"
       /\ jobs' = [jobs EXCEPT ![j].status = "running"]
       /\ UNCHANGED <<mode, dry_run, min_severity, pc, polls, findings,
                      before_score, after_score, i, pending, applied,
                      skipped, failed, history, error, decisions,
                      report_confirm, proceed_confirm, otherVars, serviceVars>>

\* variant: the job is marked complete before its score is stored
JobComplete_NoScore(j, out) ==
    jobs' = [jobs EXCEPT ![j].status = "complete",
                         ![j].findings = out.findings]

JobComplete(j, out) ==
    jobs' = [jobs EXCEPT ![j].status = "complete",
                         ![j].findings = out.findings,
                         ![j].score = out.score]

\* variant: the exception is swallowed and the job completes without findings
JobError_CompletesEmpty(j, msg) ==
    jobs' = [jobs EXCEPT ![j].status = "complete", ![j].error = msg]

JobError(j, msg) ==
    jobs' = [jobs EXCEPT ![j].status = "error", ![j].error = msg]

\* _run_scan ends: the report named by the request, or the one run_scan
\* wrote, is parsed and scored; run_scan returning None and any exception
\* end the job in status "error"
RunScanEnd ==
    \E j \in 1..Len(jobs) :
       /\ jobs[j].status = "running"
       /\ \/ \E out \in ScanOutcomes[min_severity] : JobComplete(j, out)
          \/ /\ jobs[j].results_xml
             /\ JobComplete(j, ScanOutcome(ReportNotFound, min_severity))
          \/ /\ jobs[j].results_xml
             /\ JobError(j, <<"ParseError">>)
          \/ /\ ~jobs[j].results_xml
             /\ JobError(j, <<"Scan failed - check oscap logs">>)
       /\ UNCHANGED <<mode, dry_run, min_severity, pc, polls, findings,
                      before_score, after_score, i, pending, applied,
                      skipped, failed, history, error, decisions,
                      report_confirm, proceed_confirm, otherVars, serviceVars>>

(***************************************************************************)
(* orchestrator.py run() : health check and baseline scan                  *)
(***************************************************************************)
\* check_services(); "Continue anyway?" when a service is unreachable
CheckServices ==
    /\ pc = "start" /\ mode = "distributed"
    /\ \E all_ok \in BOOLEAN, continue \in BOOLEAN :
          IF all_ok \/ continue
          THEN pc' = "post_scan" /\ error' = error
          ELSE Exit(1)
    /\ UNCHANGED <<mode, dry_run, min_severity, jobs, polls, findings,
                   before_score, after_score, i, pending, applied, skipped,
                   failed, history, decisions, report_confirm, proceed_confirm, otherVars, serviceVars>>

\* job = _post(f"{SCANNER_URL}/scan", scan_req): start_scan creates the job
PostScan ==
    /\ pc = "post_scan"
    /\ \E given \in BOOLEAN : jobs' = Append(jobs, NewJob(given))
    /\ pc' = "poll_scan"
    /\ polls' = 0
    /\ UNCHANGED <<mode, dry_run, min_severity, findings, before_score,
                   after_score, i, pending, applied, skipped, failed,
                   history, error, decisions, report_confirm, proceed_confirm, otherVars, serviceVars>>

\* the job the front end is polling
CurrentJob == jobs[Len(jobs)]

\* poll_scan: one GET that finds the job queued or running, then sleep(5)
PollWait ==
    /\ pc \in {"poll_scan", "poll_rescan"}
    /\ polls < MaxPolls
    /\ CurrentJob.status \in {"queued", "running"}
    /\ polls' = polls + 1
    /\ UNCHANGED <<mode, dry_run, min_severity, pc, jobs, findings,
                   before_score, after_score, i, pending, applied, skipped,
                   failed, history, error, decisions, report_confirm, proceed_confirm, otherVars,
                   serviceVars>>

\* variant: when the deadline has passed the loop starts over
PollTimeout_StartsOver ==
    /\ pc \in {"poll_scan", "poll_rescan"}
    /\ polls = MaxPolls
    /\ polls' = 0
    /\ UNCHANGED <<mode, dry_run, min_severity, pc, jobs, findings,
                   before_score, after_score, i, pending, applied, skipped,
                   failed, history, error, decisions, report_confirm,
                   proceed_confirm, otherVars, serviceVars>>

\* poll_scan: the deadline has passed: raise TimeoutError("Scan timed out")
PollTimeout ==
    /\ pc \in {"poll_scan", "poll_rescan"}
    /\ polls = MaxPolls
    /\ Crash(pc, <<"Scan timed out">>)
    /\ UNCHANGED <<mode, dry_run, min_severity, jobs, polls, findings,
                   before_score, after_score, i, pending, applied, skipped,
                   failed, history, decisions, report_confirm, proceed_confirm, otherVars, serviceVars>>

\* poll_scan: a GET that finds status "error": raise RuntimeError
PollError ==
    /\ pc \in {"poll_scan", "poll_rescan"}
    /\ polls < MaxPolls
    /\ CurrentJob.status = "error"
    /\ Crash(pc, <<"Scan failed: ">> \o CurrentJob.error)
    /\ UNCHANGED <<mode, dry_run, min_severity, jobs, polls, findings,
                   before_score, after_score, i, pending, applied, skipped,
                   failed, history, decisions, report_confirm, proceed_confirm, otherVars, serviceVars>>

\* poll_scan returns the completed baseline job; run() lines 151-171:
\* no findings: exit; else record the baseline in the ledger, and stop
\* there under --scan-only
BaselineComplete ==
    /\ pc = "poll_scan"
    /\ polls < MaxPolls
    /\ CurrentJob.status = "complete"
    /\ findings' = CurrentJob.findings
    /\ before_score' = CurrentJob.score
    /\ polls' = 0
    /\ IF CurrentJob.findings = <<>>
       THEN /\ Exit(0)
            /\ history' = history
       ELSE /\ history' = Append(history,
                    LedgerEntry(CurrentJob.score, CurrentJob.findings, <<>>))
            /\ \E scan_only \in BOOLEAN :
                  IF scan_only THEN Exit(0)
                  ELSE pc' = "triage" /\ error' = error
    /\ UNCHANGED <<mode, dry_run, min_severity, jobs, after_score, i,
                   pending, applied, skipped, failed, decisions,
                   report_confirm, proceed_confirm, otherVars, serviceVars>>

(***************************************************************************)
(* agent.py run_local_mode() : baseline scan                               *)
(***************************************************************************)
\* lines 247-260: the report is args.results or the one run_scan writes
\* (None: exit 1); it is parsed, scored and recorded; --scan-only stops here
LocalScan ==
    /\ pc = "start" /\ mode = "local"
    /\ \/ \E given \in BOOLEAN,
             rep \in Reports \cup {ReportNotFound} :
             /\ rep = ReportNotFound => given
             /\ findings' = parse_results(rep, min_severity)
             /\ before_score' = get_compliance_score(rep)
             /\ history' = Append(history,
                    LedgerEntry(get_compliance_score(rep),
                                parse_results(rep, min_severity), <<>>))
             /\ \E scan_only \in BOOLEAN :
                   IF scan_only THEN Exit(0)
                   ELSE pc' = "triage" /\ error' = error
       \/ \* run_scan returned (None, None)
          /\ Exit(1)
          /\ UNCHANGED <<findings, before_score, history>>
       \/ \* ET.parse raises on a report that is not well-formed
          /\ Crash("scan", <<"ParseError">>)
          /\ UNCHANGED <<findings, before_score, history>>
    /\ UNCHANGED <<mode, dry_run, min_severity, jobs, polls, after_score, i,
                   pending, applied, skipped, failed, decisions,
                   report_confirm, proceed_confirm, otherVars, serviceVars>>

(***************************************************************************)
(* Batch triage and the operator's go-ahead                                *)
(***************************************************************************)
\* variant: the triage failure is noted and the session goes on
TriageFailed_Continue(e) ==
    /\ pc' = "confirm"
    /\ error' = [at |-> "triage", msg |-> EngineFailure(e)]

\* the batch triage request fails: the exception is not caught
TriageFailed(e) == Crash("triage", EngineFailure(e))

\* orchestrator.py 173-183 / agent.py 262-266
Triage ==
    /\ pc = "triage"
    /\ \/ pc' = "confirm" /\ error' = error
       \/ \E e \in EngineErrors : TriageFailed(e)
    /\ UNCHANGED <<mode, dry_run, min_severity, jobs, polls, findings,
                   before_score, after_score, i, pending, applied, skipped,
                   failed, history, decisions, report_confirm, proceed_confirm, otherVars, serviceVars>>

\* the operator agrees: the for loop starts at the first finding
StartLoop ==
    /\ i' = 1
    /\ pc' = IF findings = <<>> THEN "after_loop" ELSE "analyze"
    /\ error' = error

\* variant: a declined session walks the finding queue all the same
DeclineProceed_StartsLoop == StartLoop

\* the operator declines: sys.exit(0)
DeclineProceed == Exit(0) /\ i' = i

\* Confirm.ask("Proceed to remediation?"); then the for loop starts
ConfirmProceed ==
    /\ pc = "confirm"
    /\ \E proceed \in BOOLEAN :
          IF proceed
          THEN /\ proceed_confirm' = "yes"
               /\ StartLoop
          ELSE /\ proceed_confirm' = "no"
               /\ DeclineProceed
    /\ UNCHANGED <<mode, dry_run, min_severity, jobs, polls, findings,
                   before_score, after_score, pending, applied, skipped,
                   failed, history, decisions, report_confirm, otherVars,
                   serviceVars>>

(***************************************************************************)
(* tools/remediator.py and services/remediation_service.py                 *)
(***************************************************************************)
\* generate_playbook: one playbook file is written for the finding
generate_playbook(rid) == playbooks' = Append(playbooks, rid)

\* variant: the playbook is started twice
apply_playbook_start_Twice(idx, rid) ==
    /\ runs' = runs \o <<[idx |-> idx, rule_id |-> rid,
                           check |-> remediator_dry_run],
                          [idx |-> idx, rule_id |-> rid,
                           check |-> remediator_dry_run]>>
    /\ last_outcome' = "running"

\* apply_playbook, up to subprocess.run: the command carries --check
\* exactly when the remediator is in dry-run mode
apply_playbook_start(idx, rid) ==
    /\ runs' = Append(runs, [idx |-> idx, rule_id |-> rid,
                             check |-> remediator_dry_run])
    /\ last_outcome' = "running"

\* success = result.returncode == 0; FileNotFoundError and TimeoutExpired
\* are caught and reported as (False, <reason>)
apply_success(outcome) == outcome = "exit0"

\* variant: the confirmation is checked after the playbook was written
apply_remediation_accept_LateCheck(idx, rid, confirmed) ==
    /\ apply_requests' = Append(apply_requests, confirmed)
    /\ generate_playbook(rid)
    /\ IF ~confirmed
       THEN /\ apply_status' = 400
            /\ UNCHANGED <<runs, last_outcome>>
       ELSE /\ apply_playbook_start(idx, rid)
            /\ apply_status' = apply_status
    /\ UNCHANGED <<remediator_dry_run, svc_applied, svc_failed>>

\* POST /apply, up to the executor start: a request that is not confirmed
\* is answered 400 before anything else happens
apply_remediation_accept(idx, rid, confirmed) ==
    /\ apply_requests' = Append(apply_requests, confirmed)
    /\ IF ~confirmed
       THEN /\ apply_status' = 400
            /\ UNCHANGED <<playbooks, runs, last_outcome>>
       ELSE /\ generate_playbook(rid)
            /\ apply_playbook_start(idx, rid)
            /\ apply_status' = apply_status
    /\ UNCHANGED <<remediator_dry_run, svc_applied, svc_failed>>

\* POST /apply, from the executor's end to the response: the service's
\* remediator records the outcome and the handler answers 200
apply_remediation_finish(rid, outcome) ==
    /\ last_outcome' = outcome
    /\ apply_status' = 200
    /\ IF apply_success(outcome)
       THEN svc_applied' = Append(svc_applied, rid) /\ svc_failed' = svc_failed
       ELSE svc_failed' = Append(svc_failed, rid) /\ svc_applied' = svc_applied
    /\ UNCHANGED <<remediator_dry_run, playbooks, runs, apply_requests>>

\* seconds from sending POST /apply to its response arriving
ResponseTime(outcome, overhead) ==
    (IF outcome = "timeout" THEN PLAYBOOK_TIMEOUT ELSE 0) + overhead

(***************************************************************************)
(* The per-finding loop (orchestrator.py 194-229, agent.py 271-302)        *)
(***************************************************************************)
\* the per-finding analysis request
Analyze ==
    /\ pc = "analyze"
    /\ last_outcome' = "none"
    /\ \/ pc' = "generate" /\ error' = error
       \/ \E e \in EngineErrors : Crash("analyze", EngineFailure(e))
    /\ UNCHANGED <<mode, dry_run, min_severity, jobs, polls, findings,
                   before_score, after_score, i, pending, applied, skipped,
                   failed, history, decisions, report_confirm, proceed_confirm, otherVars,
                   remediator_dry_run, svc_applied, svc_failed, playbooks,
                   runs, apply_status, apply_requests>>

\* the per-finding remediation request; then the finding is presented
Generate ==
    /\ pc = "generate"
    /\ \/ /\ pc' = "gate"
          /\ error' = error
          /\ pending' = [idx |-> i, rule_id |-> CurrentRule]
       \/ /\ \E e \in EngineErrors : Crash("generate", EngineFailure(e))
          /\ pending' = pending
    /\ UNCHANGED <<mode, dry_run, min_severity, jobs, polls, findings,
                   before_score, after_score, i, applied, skipped, failed,
                   history, decisions, report_confirm, proceed_confirm, otherVars, serviceVars>>

\* variant: a skipped finding is recorded as applied
RecordSkip_AsApplied ==
    /\ applied' = Append(applied, CurrentRule)
    /\ UNCHANGED <<skipped, failed>>

\* decision == "skip"
RecordSkip ==
    /\ skipped' = Append(skipped, CurrentRule)
    /\ UNCHANGED <<applied, failed>>

\* variant: the success flag is not looked at
RecordApply_IgnoresResult(ok) ==
    applied' = Append(applied, CurrentRule) /\ UNCHANGED <<skipped, failed>>

\* apply_resp["success"] / ok routes the rule id to applied or failed
RecordApply(ok) ==
    IF ok
    THEN applied' = Append(applied, CurrentRule) /\ UNCHANGED <<skipped, failed>>
    ELSE failed' = Append(failed, CurrentRule) /\ UNCHANGED <<applied, skipped>>

\* variant: quit records the finding at the gate as skipped
RecordQuit_SkipsCurrent ==
    /\ skipped' = Append(skipped, CurrentRule)
    /\ UNCHANGED <<i, applied, failed>>

\* variant: the apply is started and the loop moves on without waiting
AwaitApply_FireAndForget == NextFinding

\* decision == "quit": break, nothing is recorded
RecordQuit == UNCHANGED <<i, applied, skipped, failed>>

\* the apply call blocks: the loop stays at the current finding until
\* _post(.../apply) / apply_playbook(path) returns
AwaitApply == pc' = "applying" /\ i' = i

\* variant: a line that is not a choice is taken as the default, skip
PromptReject_TakesDefault ==
    /\ pc = "gate"
    /\ Len(rejected) < MaxRejects
    /\ \E line \in Refused(GateChoices) : rejected' = Append(rejected, line)
    /\ decisions' = Append(decisions, "skip")
    /\ pending' = NoPending
    /\ RecordSkip
    /\ NextFinding
    /\ UNCHANGED <<mode, dry_run, min_severity, jobs, polls, findings,
                   before_score, after_score, history, error,
                   report_confirm, proceed_confirm, serviceVars,
                   ledgerVars, dockerVars, parserVars, playbookVars>>

\* Prompt.ask at the gate is given a line that is not one of its choices:
\* it prints the error and asks again; nothing is returned to the loop
PromptReject ==
    /\ pc = "gate"
    /\ Len(rejected) < MaxRejects
    /\ \E line \in Refused(GateChoices) : rejected' = Append(rejected, line)
    /\ UNCHANGED <<sessionVars, serviceVars, ledgerVars, dockerVars,
                   parserVars, playbookVars>>

\* the operator's decision at the approval gate
Decide ==
    /\ pc = "gate"
    /\ \E d \in Decisions :
          /\ decisions' = Append(decisions, d)
          /\ pending' = NoPending
          /\ CASE d = "quit" ->
                    /\ pc' = "after_loop"
                    /\ RecordQuit
                    /\ UNCHANGED serviceVars
               [] d = "skip" ->
                    /\ RecordSkip
                    /\ NextFinding
                    /\ UNCHANGED serviceVars
               [] d = "apply" ->
                    /\ AwaitApply
                    /\ UNCHANGED <<applied, skipped, failed>>
                    /\ IF mode = "distributed"
                       THEN apply_remediation_accept(i, CurrentRule, TRUE)
                       ELSE /\ generate_playbook(CurrentRule)
                            /\ apply_playbook_start(i, CurrentRule)
                            /\ UNCHANGED <<remediator_dry_run, svc_applied,
                                           svc_failed, apply_status,
                                           apply_requests>>
    /\ UNCHANGED <<mode, dry_run, min_severity, jobs, polls, findings,
                   before_score, after_score, history, error,
                   report_confirm, proceed_confirm, otherVars>>

\* the apply returns.  Distributed: the service records and answers; the
\* orchestrator's _post raises when the answer takes longer than its
\* timeout.  Local: apply_playbook returns (ok, out).
ApplyReturn ==
    /\ pc = "applying"
    /\ \E outcome \in ExecOutcomes :
          IF mode = "distributed"
          THEN /\ apply_remediation_finish(CurrentRule, outcome)
               /\ \E overhead \in 0..MaxOverhead :
                     IF ResponseTime(outcome, overhead) > APPLY_HTTP_TIMEOUT
                     THEN /\ Crash("apply", <<"ReadTimeout">>)
                          /\ UNCHANGED <<i, applied, skipped, failed>>
                     ELSE /\ RecordApply(apply_success(outcome))
                          /\ NextFinding
                          /\ error' = error
          ELSE /\ last_outcome' = outcome
               /\ RecordApply(apply_success(outcome))
               /\ NextFinding
               /\ error' = error
               /\ UNCHANGED <<remediator_dry_run, svc_applied, svc_failed,
                              playbooks, runs, apply_status, apply_requests>>
    /\ UNCHANGED <<mode, dry_run, min_severity, jobs, polls, findings,
                   before_score, after_score, pending, history, decisions,
                   report_confirm, proceed_confirm, otherVars>>

(***************************************************************************)
(* After the loop                                                          *)
(***************************************************************************)
\* orchestrator.py 232-235: "if applied and not (args.dry_run or DRY_RUN)",
\* then Confirm.ask("Generate final compliance report?") and the re-scan
\* is posted; agent.py 304-311: the summary is printed
\* variant: the dry-run flag is not looked at
ShouldValidate_IgnoresDryRun == mode = "distributed" /\ applied # <<>>

ShouldValidate == mode = "distributed" /\ applied # <<>> /\ ~dry_run

AfterLoop ==
    /\ pc = "after_loop"
    /\ last_outcome' = "none"
    /\ IF ShouldValidate
       THEN \E generate \in BOOLEAN :
               IF generate
               THEN /\ report_confirm' = "yes"
                    /\ jobs' = Append(jobs, NewJob(FALSE))
                    /\ pc' = "poll_rescan"
               ELSE /\ report_confirm' = "no"
                    /\ jobs' = jobs
                    /\ pc' = "done"
       ELSE /\ pc' = "done"
            /\ UNCHANGED <<report_confirm, jobs>>
    /\ polls' = 0
    /\ UNCHANGED <<mode, dry_run, min_severity, findings, before_score,
                   after_score, i, pending, applied, skipped, failed,
                   history, error, decisions, proceed_confirm, otherVars,
                   remediator_dry_run, svc_applied, svc_failed, playbooks,
                   runs, apply_status, apply_requests>>

\* variant: the second ledger entry is posted without the applied list
RescanComplete_NoApplied ==
    /\ pc = "poll_rescan"
    /\ polls < MaxPolls
    /\ CurrentJob.status = "complete"
    /\ after_score' = CurrentJob.score
    /\ history' = Append(history,
                    LedgerEntry(CurrentJob.score, CurrentJob.findings, <<>>))
    /\ pc' = "final_report"
    /\ polls' = 0
    /\ UNCHANGED <<mode, dry_run, min_severity, jobs, findings, before_score,
                   i, pending, applied, skipped, failed, error, decisions,
                   report_confirm, proceed_confirm, otherVars, serviceVars>>

\* orchestrator.py 236-245: poll_scan returns the completed re-scan;
\* after_score is taken and the second ledger entry is posted
RescanComplete ==
    /\ pc = "poll_rescan"
    /\ polls < MaxPolls
    /\ CurrentJob.status = "complete"
    /\ after_score' = CurrentJob.score
    /\ history' = Append(history,
                    LedgerEntry(CurrentJob.score, CurrentJob.findings, applied))
    /\ pc' = "final_report"
    /\ polls' = 0
    /\ UNCHANGED <<mode, dry_run, min_severity, jobs, findings, before_score,
                   i, pending, applied, skipped, failed, error, decisions,
                   report_confirm, proceed_confirm, otherVars, serviceVars>>

\* orchestrator.py 249-264: the executive summary is requested
FinalReport ==
    /\ pc = "final_report"
    /\ \/ pc' = "done" /\ error' = error
       \/ \E e \in EngineErrors : Crash("final_report", EngineFailure(e))
    /\ UNCHANGED <<mode, dry_run, min_severity, jobs, polls, findings,
                   before_score, after_score, i, pending, applied, skipped,
                   failed, history, decisions, report_confirm, proceed_confirm, otherVars, serviceVars>>

Next ==
    \/ CheckServices
    \/ PostScan
    \/ RunScanBegin
    \/ RunScanEnd
    \/ PollWait
    \/ PollTimeout
    \/ PollError
    \/ BaselineComplete
    \/ LocalScan
    \/ Triage
    \/ ConfirmProceed
    \/ Analyze
    \/ Generate
    \/ Decide
    \/ ApplyReturn
    \/ AfterLoop
    \/ RescanComplete
    \/ FinalReport

Spec == Init /\ [][Next]_vars

\* The baseline scan of orchestrator.py taken on its own: the health check,
\* POST /scan, the scanner service's job, and poll_scan up to its return.
NextScan ==
    \/ CheckServices
    \/ PostScan
    \/ RunScanBegin
    \/ RunScanEnd
    \/ PollWait
    \/ PollTimeout
    \/ PollError
    \/ BaselineComplete

SpecScan == Init /\ [][NextScan]_vars

\* The session up to the end of the per-finding loop, with the prompt's
\* re-asking at the approval gate
NextLoop ==
    \/ CheckServices
    \/ PostScan
    \/ RunScanBegin
    \/ RunScanEnd
    \/ PollWait
    \/ PollTimeout
    \/ PollError
    \/ BaselineComplete
    \/ LocalScan
    \/ Triage
    \/ ConfirmProceed
    \/ Analyze
    \/ Generate
    \/ PromptReject
    \/ Decide
    \/ ApplyReturn

SpecLoop == Init /\ [][NextLoop]_vars

\* the front end is a running process: its polling loop keeps taking steps
\* (a GET answers or times out after 30 s, sleep(5) returns); nothing is
\* assumed about the scanner service finishing a job
PollStep == PollWait \/ PollTimeout \/ PollError \/ BaselineComplete

FairSpecScan == SpecScan /\ WF_vars(PollStep)

(***************************************************************************)
(* The remediation service on its own: any client may POST /apply          *)
(***************************************************************************)
InitService ==
    /\ mode = "distributed"
    /\ dry_run = FALSE
    /\ remediator_dry_run \in BOOLEAN
    /\ min_severity = "ALL"
    /\ pc = "serving"
    /\ jobs = <<>>
    /\ polls = 0
    /\ findings = <<>>
    /\ before_score = EmptyScore
    /\ after_score = EmptyScore
    /\ i = 0
    /\ pending = NoPending
    /\ applied = <<>> /\ skipped = <<>> /\ failed = <<>>
    /\ svc_applied = <<>> /\ svc_failed = <<>>
    /\ playbooks = <<>>
    /\ runs = <<>>
    /\ last_outcome = "none"
    /\ apply_status = 0
    /\ apply_requests = <<>>
    /\ history = <<>>
    /\ error = NoError
    /\ decisions = <<>>
    /\ report_confirm = "unasked"
    /\ proceed_confirm = "unasked"
    /\ LedgerIdle
    /\ DockerIdle
    /\ ParserIdle
    /\ PlaybookIdle
    /\ PromptIdle

\* a POST /apply arrives; the handler runs up to the executor start
ServiceAccept ==
    /\ pc = "serving"
    /\ last_outcome # "running"
    /\ Len(apply_requests) < MaxRequests
    /\ \E rid \in RuleIds, confirmed \in BOOLEAN :
          apply_remediation_accept(0, rid, confirmed)
    /\ UNCHANGED <<sessionVars, otherVars>>

\* the executor ends; the handler records and answers
ServiceFinish ==
    /\ pc = "serving"
    /\ last_outcome = "running"
    /\ \E outcome \in ExecOutcomes :
          apply_remediation_finish(runs[Len(runs)].rule_id, outcome)
    /\ UNCHANGED <<sessionVars, otherVars>>

\* GET /summary: remediator.get_summary() of the service's one remediator;
\* the service never calls record_skipped
get_summary ==
    [applied |-> svc_applied, skipped |-> <<>>, failed |-> svc_failed]

NextService == ServiceAccept \/ ServiceFinish

SpecService == InitService /\ [][NextService]_vars

(***************************************************************************)
(* The compliance ledger on its own: trackers of several processes share   *)
(* one history file                                                        *)
(***************************************************************************)
InitLedger ==
    /\ mode = "local"
    /\ dry_run = FALSE
    /\ remediator_dry_run = FALSE
    /\ min_severity = "ALL"
    /\ pc = "ledger"
    /\ jobs = <<>>
    /\ polls = 0
    /\ findings = <<>>
    /\ before_score = EmptyScore
    /\ after_score = EmptyScore
    /\ i = 0
    /\ pending = NoPending
    /\ applied = <<>> /\ skipped = <<>> /\ failed = <<>>
    /\ svc_applied = <<>> /\ svc_failed = <<>>
    /\ playbooks = <<>>
    /\ runs = <<>>
    /\ last_outcome = "none"
    /\ apply_status = 0
    /\ apply_requests = <<>>
    /\ history = <<>>
    /\ error = NoError
    /\ decisions = <<>>
    /\ report_confirm = "unasked"
    /\ proceed_confirm = "unasked"
    /\ LedgerIdle
    /\ DockerIdle
    /\ ParserIdle
    /\ PlaybookIdle
    /\ PromptIdle

\* record_scan calls started so far; it serves as the clock of the timestamps
AppendsStarted ==
    Len(returned)
    + Cardinality({t \in Trackers : trackers[t].up /\ trackers[t].writing})

\* ComplianceTracker(reports_dir): _load_history reads the whole file, or
\* starts from [] when there is none; json.load raises on invalid text and
\* no tracker is constructed
OpenTracker ==
    /\ pc = "ledger"
    /\ \E t \in Trackers :
          /\ ~trackers[t].up
          /\ trackers' = [trackers EXCEPT ![t] =
                CASE history_file.state = "absent" ->
                        [up |-> TRUE, history |-> <<>>, writing |-> FALSE,
                         load |-> "ok"]
                  [] history_file.state = "json" ->
                        [up |-> TRUE, history |-> history_file.entries,
                         writing |-> FALSE, load |-> "ok"]
                  [] OTHER -> TrackerDown("failed")]
    /\ UNCHANGED <<history_file, returned, improvement>>
    /\ UNCHANGED <<sessionVars, serviceVars, dockerVars, parserVars,
                 playbookVars, promptVars>>

\* record_scan, lines 65-77: the entry is appended to self.history and the
\* history file is opened for writing, which empties it
RecordScanBegin ==
    /\ pc = "ledger"
    /\ AppendsStarted < MaxAppends
    /\ \E t \in Trackers, score \in LedgerScores :
          /\ trackers[t].up /\ ~trackers[t].writing
          /\ trackers' = [trackers EXCEPT
                ![t].history = Append(@,
                    StampedEntry(AppendsStarted + 1, score, <<>>, <<>>)),
                ![t].writing = TRUE]
          /\ history_file' = InvalidFile
    /\ UNCHANGED <<returned, improvement>>
    /\ UNCHANGED <<sessionVars, serviceVars, dockerVars, parserVars,
                 playbookVars, promptVars>>

\* record_scan, lines 78-80: json.dump writes self.history from the start
\* of the file, the file is closed and the entry is returned.  When another
\* tracker wrote the file since this one opened it, the text left behind is
\* this history, or this history followed by the tail of the longer text
\* the other one wrote (which json.load rejects)
RecordScanEnd ==
    /\ pc = "ledger"
    /\ \E t \in Trackers :
          /\ trackers[t].up /\ trackers[t].writing
          /\ \/ history_file' = JsonFile(trackers[t].history)
             \/ /\ history_file.state = "json"
                /\ Len(history_file.entries) > Len(trackers[t].history)
                /\ history_file' = InvalidFile
          /\ trackers' = [trackers EXCEPT ![t].writing = FALSE]
          /\ returned' = Append(returned,
                [by |-> t,
                 entry |-> trackers[t].history[Len(trackers[t].history)]])
    /\ UNCHANGED improvement
    /\ UNCHANGED <<sessionVars, serviceVars, dockerVars, parserVars,
                 playbookVars, promptVars>>

\* the process of a tracker ends (exit, kill, restart of the service); a
\* record_scan it was in the middle of leaves the file as it is
Kill ==
    /\ pc = "ledger"
    /\ \E t \in Trackers :
          /\ trackers[t].up
          /\ trackers' = [trackers EXCEPT ![t] = TrackerDown("none")]
    /\ UNCHANGED <<history_file, returned, improvement>>
    /\ UNCHANGED <<sessionVars, serviceVars, dockerVars, parserVars,
                 playbookVars, promptVars>>

\* get_improvement(), as called directly or by GET /improvement
GetImprovement ==
    /\ pc = "ledger"
    /\ \E t \in Trackers :
          /\ trackers[t].up /\ ~trackers[t].writing
          /\ improvement' = [by |-> t, op |-> "get_improvement",
                             result |-> get_improvement(trackers[t].history)]
    /\ UNCHANGED <<history_file, trackers, returned>>
    /\ UNCHANGED <<sessionVars, serviceVars, dockerVars, parserVars,
                 playbookVars, promptVars>>

\* print_progress(): nothing on an empty history, else the panel built from
\* get_improvement() and history[-1]
PrintProgress ==
    /\ pc = "ledger"
    /\ \E t \in Trackers :
          /\ trackers[t].up /\ ~trackers[t].writing
          /\ trackers[t].history # <<>>
          /\ improvement' = [by |-> t, op |-> "print_progress",
                             result |-> get_improvement(trackers[t].history)]
    /\ UNCHANGED <<history_file, trackers, returned>>
    /\ UNCHANGED <<sessionVars, serviceVars, dockerVars, parserVars,
                 playbookVars, promptVars>>

NextLedger ==
    \/ OpenTracker
    \/ RecordScanBegin
    \/ RecordScanEnd
    \/ Kill
    \/ GetImprovement
    \/ PrintProgress

SpecLedger == InitLedger /\ [][NextLedger]_vars

(***************************************************************************)
(* agent.py run_docker_mode(): the client of the orchestrator service.     *)
(* The service itself is not part of the sources; its session follows the  *)
(* phase machine of the specification (section 4.4).                       *)
(***************************************************************************)
InitDocker ==
    /\ mode = "distributed"
    /\ dry_run \in BOOLEAN
    /\ remediator_dry_run = dry_run
    /\ min_severity = "ALL"
    /\ pc = "docker"
    /\ jobs = <<>>
    /\ polls = 0
    /\ findings = <<>>
    /\ before_score = EmptyScore
    /\ after_score = EmptyScore
    /\ i = 0
    /\ pending = NoPending
    /\ applied = <<>> /\ skipped = <<>> /\ failed = <<>>
    /\ svc_applied = <<>> /\ svc_failed = <<>>
    /\ playbooks = <<>>
    /\ runs = <<>>
    /\ last_outcome = "none"
    /\ apply_status = 0
    /\ apply_requests = <<>>
    /\ history = <<>>
    /\ error = NoError
    /\ decisions = <<>>
    /\ report_confirm = "unasked"
    /\ proceed_confirm = "unasked"
    /\ LedgerIdle
    /\ docker_pc = "health"
    /\ session = NoSession
    /\ last_phase = "None"
    /\ last_pending = 0
    /\ approvals = <<>>
    /\ ParserIdle
    /\ PlaybookIdle
    /\ PromptIdle

\* lines 98-114: client.health(); a degraded stack asks "Continue?"; an
\* exception (orchestrator unreachable) exits 1
DockerHealth ==
    /\ docker_pc = "health"
    /\ \E health \in {"ok", "degraded", "unreachable"}, continue \in BOOLEAN :
          docker_pc' = IF health = "ok" \/ (health = "degraded" /\ continue)
                       THEN "start" ELSE "exit1"
    /\ UNCHANGED <<session, last_phase, last_pending, approvals>>
    /\ UNCHANGED <<sessionVars, serviceVars, ledgerVars, parserVars,
                 playbookVars, promptVars>>

\* lines 116-127: start_session posts /session/start; raise_for_status
\* raises on an error answer
DockerStart ==
    /\ docker_pc = "start"
    /\ \/ /\ session' = [NoSession EXCEPT !.phase = "queued"]
          /\ docker_pc' = "polling"
       \/ /\ session' = session
          /\ docker_pc' = "crashed"
    /\ UNCHANGED <<last_phase, last_pending, approvals>>
    /\ UNCHANGED <<sessionVars, serviceVars, ledgerVars, parserVars,
                 playbookVars, promptVars>>

\* lines 154-180: in phase remediating the pending record is fetched; a
\* record that differs from the last one presented is shown and the
\* operator's decision is posted to /approve.  approve() (lines 72-77)
\* neither calls raise_for_status nor looks at the answer: the service
\* takes the decision, or answers with an error status and takes nothing
DockerGate(phase) ==
    IF phase = "remediating" /\ session.pending # 0
       /\ session.pending # last_pending
    THEN /\ last_pending' = session.pending
         /\ \E d \in DockerDecisions, accepted \in BOOLEAN :
               /\ approvals' = Append(approvals,
                                      [idx |-> session.pending, decision |-> d])
               /\ session' = IF accepted
                             THEN [session EXCEPT !.decision = d]
                             ELSE session
    ELSE UNCHANGED <<last_pending, approvals, session>>

\* lines 129-189: one turn of "while True": get_session, the phase label,
\* the approval gate, then break on complete, sys.exit(1) on error, and
\* otherwise the sleep before the next turn
DockerPoll ==
    /\ docker_pc = "polling"
    /\ LET phase == session.phase
       IN  /\ last_phase' = phase
           /\ DockerGate(phase)
           /\ docker_pc' = CASE phase = "complete" -> "done"
                              [] phase = "error"    -> "exit1"
                              [] OTHER              -> "sleeping"
    /\ UNCHANGED <<sessionVars, serviceVars, ledgerVars, parserVars,
                 playbookVars, promptVars>>

\* line 189: time.sleep(2.0) returns and the loop turns again
DockerSleep ==
    /\ docker_pc = "sleeping"
    /\ docker_pc' = "polling"
    /\ UNCHANGED <<session, last_phase, last_pending, approvals>>
    /\ UNCHANGED <<sessionVars, serviceVars, ledgerVars, parserVars,
                 playbookVars, promptVars>>

\* a request of the loop fails (connection error, httpx timeout after
\* 600 s): the exception is not caught
DockerRequestFails ==
    /\ docker_pc = "polling"
    /\ docker_pc' = "crashed"
    /\ UNCHANGED <<session, last_phase, last_pending, approvals>>
    /\ UNCHANGED <<sessionVars, serviceVars, ledgerVars, parserVars,
                 playbookVars, promptVars>>

\* the service moves the session along: Queued -> Scanning -> Analyzing ->
\* Remediating (one pending record at a time, resolved by a decision) ->
\* Validating (when something was applied and the session is not dry-run)
\* -> Complete
SessionAdvance ==
    /\ docker_pc \in {"polling", "sleeping", "done", "exit1", "crashed"}
    /\ \/ /\ session.phase = "queued"
          /\ session' = [session EXCEPT !.phase = "scanning"]
       \/ /\ session.phase = "scanning"
          /\ \E n \in 0..MaxRules :
                session' = [session EXCEPT !.phase = "analyzing", !.total = n]
       \/ /\ session.phase = "analyzing"
          /\ session' = IF session.total = 0
                        THEN [session EXCEPT !.phase = "complete"]
                        ELSE [session EXCEPT !.phase = "remediating",
                                             !.pending = 1]
       \/ /\ session.phase = "remediating"
          /\ session.decision # "none"
          /\ LET applied_now == session.any_applied
                                  \/ session.decision = "apply"
             IN  session' =
                   IF session.pending < session.total
                   THEN [session EXCEPT !.pending = @ + 1,
                                        !.decision = "none",
                                        !.any_applied = applied_now]
                   ELSE [session EXCEPT
                           !.pending = 0,
                           !.decision = "none",
                           !.any_applied = applied_now,
                           !.phase = IF applied_now /\ ~dry_run
                                     THEN "validating" ELSE "complete"]
       \/ /\ session.phase = "validating"
          /\ session' = [session EXCEPT !.phase = "complete"]
    /\ UNCHANGED <<docker_pc, last_phase, last_pending, approvals>>
    /\ UNCHANGED <<sessionVars, serviceVars, ledgerVars, parserVars,
                 playbookVars, promptVars>>

\* a fatal engine error moves the session to Error from any phase that is
\* not terminal
SessionError ==
    /\ session.phase \in {"queued", "scanning", "analyzing", "remediating",
                           "validating"}
    /\ session' = [session EXCEPT !.phase = "error"]
    /\ UNCHANGED <<docker_pc, last_phase, last_pending, approvals>>
    /\ UNCHANGED <<sessionVars, serviceVars, ledgerVars, parserVars,
                 playbookVars, promptVars>>

\* lines 174-178: Prompt.ask of the docker-mode gate is given a line that
\* is not one of its choices: it asks again
DockerPromptReject ==
    /\ docker_pc = "polling"
    /\ session.phase = "remediating"
    /\ session.pending # 0
    /\ session.pending # last_pending
    /\ Len(rejected) < MaxRejects
    /\ \E line \in Refused(DockerChoices) : rejected' = Append(rejected, line)
    /\ UNCHANGED <<sessionVars, serviceVars, ledgerVars, dockerVars,
                   parserVars, playbookVars>>

NextDocker ==
    \/ DockerHealth
    \/ DockerStart
    \/ DockerPoll
    \/ DockerPromptReject
    \/ DockerSleep
    \/ DockerRequestFails
    \/ SessionAdvance
    \/ SessionError

SpecDocker == InitDocker /\ [][NextDocker]_vars

\* the client is a running process: its loop keeps turning; nothing is
\* assumed about the service making progress, nor about requests failing
FairSpecDocker == SpecDocker /\ WF_vars(DockerPoll) /\ WF_vars(DockerSleep)

(***************************************************************************)
(* tools/scanner.py : parse_results and get_compliance_score applied to    *)
(* one report, as _run_scan and run_local_mode apply them                  *)
(***************************************************************************)
InitParser ==
    /\ mode = "local"
    /\ dry_run = FALSE
    /\ remediator_dry_run = FALSE
    /\ min_severity = "ALL"
    /\ pc = "parser"
    /\ jobs = <<>>
    /\ polls = 0
    /\ findings = <<>>
    /\ before_score = EmptyScore
    /\ after_score = EmptyScore
    /\ i = 0
    /\ pending = NoPending
    /\ applied = <<>> /\ skipped = <<>> /\ failed = <<>>
    /\ svc_applied = <<>> /\ svc_failed = <<>>
    /\ playbooks = <<>>
    /\ runs = <<>>
    /\ last_outcome = "none"
    /\ apply_status = 0
    /\ apply_requests = <<>>
    /\ history = <<>>
    /\ error = NoError
    /\ decisions = <<>>
    /\ report_confirm = "unasked"
    /\ proceed_confirm = "unasked"
    /\ LedgerIdle
    /\ DockerIdle
    /\ parser_pc = "ready"
    /\ report \in ParserReports
    /\ floor \in Floors
    /\ parsed = <<>>
    /\ parsed_score = EmptyScore
    /\ PlaybookIdle
    /\ PromptIdle

\* findings = scanner.parse_results(results_xml, min_severity)
ParseReport ==
    /\ parser_pc = "ready"
    /\ parsed' = parse_results(report, floor)
    /\ parser_pc' = "parsed"
    /\ UNCHANGED <<report, floor, parsed_score>>
    /\ UNCHANGED <<sessionVars, serviceVars, ledgerVars, dockerVars,
                 playbookVars, promptVars>>

\* score = scanner.get_compliance_score(results_xml)
ScoreReport ==
    /\ parser_pc = "parsed"
    /\ parsed_score' = get_compliance_score(report)
    /\ parser_pc' = "scored"
    /\ UNCHANGED <<report, floor, parsed>>
    /\ UNCHANGED <<sessionVars, serviceVars, ledgerVars, dockerVars,
                 playbookVars, promptVars>>

NextParser == ParseReport \/ ScoreReport

SpecParser == InitParser /\ [][NextParser]_vars

\* the same two calls on reports made of failing rule-results
InitFindings ==
    /\ mode = "local"
    /\ dry_run = FALSE
    /\ remediator_dry_run = FALSE
    /\ min_severity = "ALL"
    /\ pc = "parser"
    /\ jobs = <<>>
    /\ polls = 0
    /\ findings = <<>>
    /\ before_score = EmptyScore
    /\ after_score = EmptyScore
    /\ i = 0
    /\ pending = NoPending
    /\ applied = <<>> /\ skipped = <<>> /\ failed = <<>>
    /\ svc_applied = <<>> /\ svc_failed = <<>>
    /\ playbooks = <<>>
    /\ runs = <<>>
    /\ last_outcome = "none"
    /\ apply_status = 0
    /\ apply_requests = <<>>
    /\ history = <<>>
    /\ error = NoError
    /\ decisions = <<>>
    /\ report_confirm = "unasked"
    /\ proceed_confirm = "unasked"
    /\ LedgerIdle
    /\ DockerIdle
    /\ PlaybookIdle
    /\ PromptIdle
    /\ parser_pc = "ready"
    /\ report \in FindingReports
    /\ floor \in Floors
    /\ parsed = <<>>
    /\ parsed_score = EmptyScore

SpecFindings == InitFindings /\ [][NextParser]_vars

(***************************************************************************)
(* tools/remediator.py : generate_playbook applied to one finding and one  *)
(* remediation text                                                        *)
(***************************************************************************)
InitPlaybook ==
    /\ mode = "local"
    /\ dry_run = FALSE
    /\ remediator_dry_run = FALSE
    /\ min_severity = "ALL"
    /\ pc = "playbook"
    /\ jobs = <<>>
    /\ polls = 0
    /\ findings = <<>>
    /\ before_score = EmptyScore
    /\ after_score = EmptyScore
    /\ i = 0
    /\ pending = NoPending
    /\ applied = <<>> /\ skipped = <<>> /\ failed = <<>>
    /\ svc_applied = <<>> /\ svc_failed = <<>>
    /\ playbooks = <<>>
    /\ runs = <<>>
    /\ last_outcome = "none"
    /\ apply_status = 0
    /\ apply_requests = <<>>
    /\ history = <<>>
    /\ error = NoError
    /\ decisions = <<>>
    /\ report_confirm = "unasked"
    /\ proceed_confirm = "unasked"
    /\ LedgerIdle
    /\ DockerIdle
    /\ ParserIdle
    /\ PromptIdle
    /\ pb_pc = "called"
    /\ pb_finding \in PlaybookFindings
    /\ task_yaml \in TaskTexts
    /\ tasks = NoTasks

\* path = remediator.generate_playbook(finding, task_yaml): the text is
\* parsed, the playbook is built around task_block and written
WritePlaybook ==
    /\ pb_pc = "called"
    /\ tasks' = task_block(pb_finding, task_yaml)
    /\ generate_playbook(pb_finding.rule_id)
    /\ pb_pc' = "written"
    /\ UNCHANGED <<pb_finding, task_yaml>>
    /\ UNCHANGED <<remediator_dry_run, svc_applied, svc_failed, runs,
                   last_outcome, apply_status, apply_requests>>
    /\ UNCHANGED <<sessionVars, ledgerVars, dockerVars, parserVars,
                   promptVars>>

NextPlaybook == WritePlaybook

SpecPlaybook == InitPlaybook /\ [][NextPlaybook]_vars

(***************************************************************************)
(* Vocabulary of the properties                                            *)
(***************************************************************************)
Range(seq) == {seq[k] : k \in DOMAIN seq}
NoDuplicates(seq) ==
    \A a, b \in DOMAIN seq : a # b => seq[a] # seq[b]
IsPrefix(a, b) == Len(a) <= Len(b) /\ SubSeq(b, 1, Len(a)) = a
\* a is b with some elements left out
RECURSIVE IsSubseq(_, _)
IsSubseq(a, b) ==
    IF a = <<>> THEN TRUE
    ELSE IF b = <<>> THEN FALSE
    ELSE IF Head(a) = Head(b) THEN IsSubseq(Tail(a), Tail(b))
    ELSE IsSubseq(a, Tail(b))
\* every rule id the session has recorded, in any of the three lists
Recorded == applied \o skipped \o failed
FindingIds == {findings[k].rule_id : k \in DOMAIN findings}
RuleIdsOf(fs) == [k \in DOMAIN fs |-> fs[k].rule_id]
\* the re-scan of the Validating phase has been posted
RescanPosted == Len(jobs) >= 2
Validating == pc \in {"poll_rescan", "final_report"}
\* rank of a severity floor, as the specification orders them
FloorRank(f) ==
    CASE f = "CAT_I" -> 3 [] f = "CAT_II" -> 2 [] f = "CAT_III" -> 1
      [] f = "ALL" -> 0
Rank(f) == CAT_PRIORITY(f.severity)
\* the rule-results of the report whose result is exactly "fail"
FailResults == SelectSeq(report.results, LAMBDA rr : rr.result = "fail")
OnlyPasses ==
    /\ report.results # <<>>
    /\ \A k \in DOMAIN report.results : report.results[k].result = "pass"
ParserDone == parser_pc \in {"parsed", "scored"}
\* the docker-mode client is inside its session polling loop
DockerLooping == docker_pc \in {"polling", "sleeping"}
\* the front end is inside poll_scan
Polling == pc \in {"poll_scan", "poll_rescan"}
QuitTaken == decisions # <<>> /\ decisions[Len(decisions)] = "quit"
OnlySkips == \A k \in DOMAIN decisions : decisions[k] = "skip"
\* with quit as the k-th decision: only the k-1 earlier findings are
\* recorded, and no playbook was written or run for finding k or a later one
QuitLeavesRest ==
    /\ Len(Recorded) = Len(decisions) - 1
    /\ \A r \in DOMAIN runs : runs[r].idx < Len(decisions)
    /\ Len(playbooks) = Len(runs)

\* the apply of the previous finding has just returned to the loop
ApplyReported ==
    /\ last_outcome \in ExecOutcomes
    /\ pc \in {"analyze", "after_loop"}

(***************************************************************************)
(* C1: at every point of the remediation loop the applied, skipped and     *)
(* failed lists are pairwise disjoint, hold no rule id twice, and hold     *)
(* only rule ids of the baseline findings.                                 *)
(***************************************************************************)
C1_OutcomeListsPartition ==
    /\ NoDuplicates(Recorded)
    /\ Range(Recorded) \subseteq FindingIds

(***************************************************************************)
(* C2: in a session started in dry-run mode every executor run carries     *)
(* the check flag (no apply of a dry-run session executes live).           *)
(***************************************************************************)
C2_DryRunSessionOnlyChecks ==
    dry_run => \A k \in DOMAIN runs : runs[k].check

(***************************************************************************)
(* C3: a POST /apply whose confirmed flag is not true is answered 400 and  *)
(* changes nothing: no playbook is written, the executor is not run, the   *)
(* remediator's lists stay as they were.                                   *)
(***************************************************************************)
C3_UnconfirmedApplyRejected ==
    [][(/\ Len(apply_requests') = Len(apply_requests) + 1
        /\ ~apply_requests'[Len(apply_requests')])
       => (/\ apply_status' = 400
           /\ UNCHANGED <<playbooks, runs, last_outcome, svc_applied,
                          svc_failed, applied, skipped, failed>>)]_vars

C3_Witness ==
    /\ Len(apply_requests) >= 2
    /\ ~apply_requests[Len(apply_requests)]
    /\ apply_status = 400
    /\ playbooks # <<>>

(***************************************************************************)
(* C4: at most one approval is pending; the analysis, the artifact and the *)
(* gate of finding i come only after every earlier finding was decided     *)
(* and, for an apply decision, after the apply has returned.               *)
(***************************************************************************)
C4_OnePendingApproval ==
    /\ pc \in {"analyze", "generate", "gate"} =>
          /\ last_outcome # "running"
          /\ Len(decisions) = i - 1
          /\ Len(Recorded) = i - 1
    /\ pending # NoPending =>
          /\ pc = "gate"
          /\ pending.idx = i
          /\ pending.rule_id = findings[i].rule_id
    /\ last_outcome = "running" => pending = NoPending

C4_Witness ==
    /\ pc = "gate"
    /\ pending.idx = 2
    /\ decisions = <<"apply">>
    /\ Len(runs) = 1

C7_AllSkippedNeverValidates ==
    /\ [](OnlySkips =>
            /\ applied = <<>> /\ failed = <<>>
            /\ runs = <<>>
            /\ skipped = SubSeq(RuleIdsOf(findings), 1, Len(decisions))
            /\ ~RescanPosted /\ ~Validating
            /\ pc = "done" /\ i > 0 => skipped = RuleIdsOf(findings))
    /\ [][(pc = "after_loop" /\ OnlySkips) => pc' = "done"]_vars

C7_Witness ==
    /\ pc = "done"
    /\ Len(decisions) = 2
    /\ OnlySkips
    /\ ~dry_run
    /\ mode = "distributed"

(***************************************************************************)
(* C8: when the executor times out the session does not abort: the rule    *)
(* id is recorded in failed and the loop goes on to the next finding.      *)
(***************************************************************************)
C8_TimeoutIsNotFatal ==
    last_outcome = "timeout" =>
       /\ pc \in {"analyze", "after_loop"}
       /\ failed # <<>>
       /\ failed[Len(failed)] = findings[i - 1].rule_id

C10_TriageFailureEndsSession ==
    error.at = "triage" =>
       /\ pc = "crashed"
       /\ Len(error.msg) > 0
       /\ applied = <<>> /\ skipped = <<>> /\ failed = <<>>
       /\ decisions = <<>>
       /\ pending = NoPending
       /\ runs = <<>> /\ playbooks = <<>>
       /\ apply_requests = <<>>
       /\ i = 0

C10_Witness ==
    /\ error.at = "triage"
    /\ findings # <<>>
    /\ Len(history) = 1
(***************************************************************************)
(* C11: if the operator declines to proceed after the batch triage, the    *)
(* session ends with no finding processed: the loop is never entered (no   *)
(* per-finding analysis or playbook request), no apply is requested or     *)
(* run, nothing is recorded, and the ledger keeps its single baseline      *)
(* entry (no re-scan is posted).                                           *)
(***************************************************************************)
C11_DeclineProcessesNothing ==
    proceed_confirm = "no" =>
        /\ pc = "exit0"
        /\ error = NoError
        /\ i = 0
        /\ pending = NoPending
        /\ decisions = <<>>
        /\ Recorded = <<>>
        /\ playbooks = <<>>
        /\ runs = <<>>
        /\ apply_requests = <<>>
        /\ svc_applied = <<>> /\ svc_failed = <<>>
        /\ Len(history) = 1
        /\ ~RescanPosted

C11_Witness ==
    /\ proceed_confirm = "no"
    /\ Len(findings) = MaxRules
    /\ pc = "exit0"

(***************************************************************************)
(* C12: appends made by different trackers that share the history store    *)
(* are serialized: once no record_scan is in progress, the history read    *)
(* from the store holds every entry whose record_scan has returned.        *)
(***************************************************************************)
C12_AppendsSerialized ==
    ((\A t \in Trackers : ~trackers[t].writing)
        /\ history_file.state = "json") =>
        \A k \in DOMAIN returned :
           returned[k].entry \in Range(history_file.entries)

(***************************************************************************)
(* C13: the ledger is append-only: from one readable content of the store  *)
(* to the next, the entries already in it stay where they are and at most  *)
(* one entry is added, at the end; reading operations change nothing.      *)
(***************************************************************************)
C13_LedgerAppendOnly ==
    [][/\ (history_file.state = "json" /\ history_file'.state = "json") =>
            /\ IsPrefix(history_file.entries, history_file'.entries)
            /\ Len(history_file'.entries) <= Len(history_file.entries) + 1
       /\ improvement' # improvement =>
            UNCHANGED <<history_file, trackers, returned>>]_vars

(***************************************************************************)
(* C14: appends are durable before record_scan returns: whatever calls,    *)
(* process ends and restarts came before, once no record_scan is in        *)
(* progress a newly constructed tracker loads a history that holds every   *)
(* entry whose record_scan had returned, in append order.                  *)
(***************************************************************************)
C14_ReturnedEntriesSurvive ==
    ((\A t \in Trackers : ~trackers[t].writing) /\ returned # <<>>) =>
        /\ history_file.state = "json"
        /\ IsSubseq([k \in DOMAIN returned |-> returned[k].entry],
                    history_file.entries)

(***************************************************************************)
(* C15: get_improvement answers "no data" when the history holds fewer     *)
(* than two entries; otherwise score_delta is the score of the last entry  *)
(* minus that of the first and failures_fixed is the fail_count of the     *)
(* first minus that of the last, whoever appended those entries.           *)
(***************************************************************************)
C15_ImprovementFirstToLast ==
    [][improvement' # improvement =>
         LET h == trackers[improvement'.by].history
             r == improvement'.result
         IN  IF Len(h) < 2
             THEN r.kind = "no_data"
             ELSE /\ r.kind = "improvement"
                  /\ r.score_delta = h[Len(h)].score - h[1].score
                  /\ r.failures_fixed
                        = h[1].fail_count - h[Len(h)].fail_count]_vars

\* an improvement over three entries with differing scores, the first of
\* which was appended by another tracker than the one asked
C15_Witness ==
    /\ improvement.op = "get_improvement"
    /\ improvement.result.kind = "improvement"
    /\ improvement.result.scan_count = 3
    /\ improvement.result.score_delta # 0
    /\ trackers[improvement.by].up
    /\ Len(trackers[improvement.by].history) = 3
    /\ trackers[improvement.by].history[2].score
          # trackers[improvement.by].history[1].score
    /\ \E k \in DOMAIN returned :
          /\ returned[k].entry = trackers[improvement.by].history[1]
          /\ returned[k].by # improvement.by

(***************************************************************************)
(* C16: poll_scan never polls forever.  A poll that finds the job complete *)
(* returns its result, a poll that finds it in error raises "Scan failed", *)
(* a poll that finds it queued or running sleeps and polls again, and once *)
(* the deadline has passed the loop raises "Scan timed out"; every polling *)
(* loop that is entered is eventually left.                                *)
(***************************************************************************)
C16_PollScanEnds ==
    /\ [][(Polling /\ (polls' # polls \/ pc' # pc)) =>
            CASE polls = MaxPolls ->
                    /\ pc' = "crashed"
                    /\ error' = [at |-> pc, msg |-> <<"Scan timed out">>]
              [] CurrentJob.status = "complete" ->
                    /\ pc' \in {"triage", "exit0", "final_report"}
                    /\ error' = NoError
                    /\ pc = "poll_scan" =>
                          /\ findings' = CurrentJob.findings
                          /\ before_score' = CurrentJob.score
                    /\ pc = "poll_rescan" => after_score' = CurrentJob.score
              [] CurrentJob.status = "error" ->
                    /\ pc' = "crashed"
                    /\ error' = [at |-> pc,
                                 msg |-> <<"Scan failed: ">> \o CurrentJob.error]
              [] OTHER ->
                    /\ pc' = pc
                    /\ polls' = polls + 1]_vars
    /\ (Polling ~> ~Polling)

\* the deadline passed on a job that never left queued/running
C16_Witness ==
    /\ pc = "crashed"
    /\ error.at \in {"poll_scan", "poll_rescan"}
    /\ error.msg = <<"Scan timed out">>
    /\ CurrentJob.status \in {"queued", "running"}
    /\ polls = MaxPolls

(***************************************************************************)
(* C17: the docker-mode client's session polling loop never polls forever: *)
(* whatever the session does, the loop is eventually left (on complete, on *)
(* error, or with a timeout condition).                                    *)
(***************************************************************************)
C17_DockerPollEnds == DockerLooping ~> ~DockerLooping

(***************************************************************************)
(* C18: parse_results returns only rule-results whose result is exactly    *)
(* "fail": per severity it returns no more findings than the report has    *)
(* failing rule-results of that severity (with floor ALL: exactly as       *)
(* many), so results pass, notchecked, error or a missing result element   *)
(* never appear; a report of passes only gives no finding and a score of   *)
(* 100.0 percent.                                                          *)
(***************************************************************************)
C18_OnlyFailuresReturned ==
    ParserDone =>
        /\ \A sev \in {"CAT I", "CAT II", "CAT III"} :
              /\ CountSeverity(parsed, sev)
                    <= Len(SelectSeq(FailResults,
                               LAMBDA rr : SeverityOf(report, rr) = sev))
              /\ floor = "ALL" =>
                    CountSeverity(parsed, sev)
                      = Len(SelectSeq(FailResults,
                                LAMBDA rr : SeverityOf(report, rr) = sev))
        /\ Len(parsed) <= Len(FailResults)
        /\ FailResults = <<>> => parsed = <<>>
        /\ (OnlyPasses /\ parser_pc = "scored") =>
              /\ parsed = <<>>
              /\ parsed_score.score = 1000
              /\ parsed_score.fail = 0

\* a full report of passes only, parsed and scored
C18_Witness ==
    /\ parser_pc = "scored"
    /\ OnlyPasses
    /\ Len(report.results) = MaxResults
    /\ parsed = <<>>
    /\ parsed_score.score = 1000

(***************************************************************************)
(* C19: for every report and every floor in {CAT_I, CAT_II, CAT_III, ALL}, *)
(* parse_results(report, floor) is exactly the findings of                 *)
(* parse_results(report, ALL) whose severity rank is at least the rank of  *)
(* the floor, in the same order.                                           *)
(***************************************************************************)
C19_FloorFiltersAllResult ==
    ParserDone =>
        parsed = SelectSeq(parse_results(report, "ALL"),
                           LAMBDA f : Rank(f) >= FloorRank(floor))

\* one CAT I, one CAT II and one CAT III failure with floor CAT_II give
\* exactly the CAT I and the CAT II finding
C19_Witness ==
    /\ ParserDone
    /\ floor = "CAT_II"
    /\ Len(FailResults) = 3
    /\ {SeverityOf(report, FailResults[k]) : k \in 1..3}
          = {"CAT I", "CAT II", "CAT III"}
    /\ Len(parsed) = 2
    /\ parsed[1].severity = "CAT I"
    /\ parsed[2].severity = "CAT II"

(***************************************************************************)
(* C20: the sequence parse_results returns is non-increasing in severity   *)
(* rank, whatever the order of the rule-results in the report.             *)
(***************************************************************************)
C20_SeverityNonIncreasing ==
    ParserDone =>
        \A a, b \in DOMAIN parsed : a < b => Rank(parsed[a]) >= Rank(parsed[b])

\* the report lists its failures in increasing severity
C20_Witness ==
    /\ ParserDone
    /\ floor = "ALL"
    /\ Len(FailResults) = 3
    /\ SeverityOf(report, FailResults[1]) = "CAT III"
    /\ SeverityOf(report, FailResults[2]) = "CAT II"
    /\ SeverityOf(report, FailResults[3]) = "CAT I"
    /\ RuleIdsOf(parsed) = <<"r1", "r1", "r1">>
    /\ parsed[1].severity = "CAT I"
    /\ parsed[3].severity = "CAT III"

\* how many rule-results of the report being parsed carry the result r
ResultCount(r) ==
    Cardinality({k \in DOMAIN report.results : report.results[k].result = r})
Dist(a, b) == IF a >= b THEN a - b ELSE b - a

(***************************************************************************)
(* C21: get_compliance_score counts the rule-results by their literal      *)
(* result: its pass and fail counts are the numbers of rule-results whose  *)
(* result is exactly pass and exactly fail; the score is                   *)
(* pass / (pass + fail) * 100 to the nearest tenth, so notchecked, error   *)
(* and missing results are not in the denominator; and it is exactly 0     *)
(* when pass + fail = 0.                                                   *)
(***************************************************************************)
C21_ScoreIsPassOverChecked ==
    parser_pc = "scored" =>
        LET p == ResultCount("pass")
            f == ResultCount("fail")
        IN  /\ parsed_score.present
            /\ parsed_score.pass = p
            /\ parsed_score.fail = f
            /\ p + f = 0 => parsed_score.score = 0
            /\ p + f > 0 =>
                  2 * Dist(parsed_score.score * (p + f), 1000 * p) <= p + f

\* one pass, one fail and one notchecked rule-result score 50.0 percent
C21_Witness ==
    /\ parser_pc = "scored"
    /\ ResultCount("pass") = 1
    /\ ResultCount("fail") = 1
    /\ ResultCount("notchecked") = 1
    /\ parsed_score.score = 500

(***************************************************************************)
(* C22: the score of a report does not depend on the severity floor: what  *)
(* _run_scan stores on the completed job is, for every floor, the score of *)
(* the whole report (all its pass and fail rule-results, also the failures *)
(* the floor filters out of the findings), and the ledger entry built from *)
(* it carries that score and those counts.                                 *)
(***************************************************************************)
C22_ScoreSameForEveryFloor ==
    parser_pc = "scored" =>
        \A f \in Floors :
           LET out   == ScanOutcome(report, f)
               entry == LedgerEntry(out.score, out.findings, <<>>)
           IN  /\ out.score = parsed_score
               /\ out.score.pass = ResultCount("pass")
               /\ out.score.fail = ResultCount("fail")
               /\ out.score.score
                     = ScoreTenths(ResultCount("pass"), ResultCount("fail"))
               /\ entry.score = parsed_score.score
               /\ entry.fail_count = ResultCount("fail")
               /\ entry.pass_count = ResultCount("pass")

\* floor CAT_I, one pass and one CAT III failure: no finding is returned and
\* the score is still 50.0 percent with one failure counted
C22_Witness ==
    /\ parser_pc = "scored"
    /\ floor = "CAT_I"
    /\ Len(report.results) = 2
    /\ ResultCount("pass") = 1
    /\ ResultCount("fail") = 1
    /\ parsed = <<>>
    /\ parsed_score.fail = 1
    /\ parsed_score.score = 500
    /\ ScanOutcome(report, "CAT_I").score = ScanOutcome(report, "ALL").score
    /\ ScanOutcome(report, "CAT_I").findings # ScanOutcome(report, "ALL").findings

(***************************************************************************)
(* C23: a report that does not exist is an error, never a result: a scan   *)
(* job never completes on a missing report (every completed job carries    *)
(* the score of a report that was read), and the session is never told     *)
(* that a scan of a missing report completed without failures.             *)
(***************************************************************************)
C23_MissingReportIsError ==
    /\ \A j \in DOMAIN jobs :
          jobs[j].status = "complete" => jobs[j].score.present
    /\ pc \in {"exit0", "triage"} => before_score.present

IsTaskMapping(v) == v.kind = "mapping"

(***************************************************************************)
(* C25: generate_playbook never passes through a remediation text that is  *)
(* not the expected task structure: the tasks of the playbook it writes    *)
(* are a list whose every element is a task mapping parsed from the text,  *)
(* or the single fallback shell step that wraps fix_text; a text that      *)
(* cannot be parsed, and a text that parses to a plain string, a number or *)
(* nothing, give the fallback.                                             *)
(***************************************************************************)
C25_TasksAreMappingsOrFallback ==
    pb_pc = "written" =>
        /\ tasks.kind = "seq"
        /\ \A k \in DOMAIN tasks.items : IsTaskMapping(tasks.items[k])
        /\ task_yaml.kind \in {"error", "scalar"} =>
              tasks.items = <<FallbackTask(pb_finding)>>

(***************************************************************************)
(* C26: after any sequence of apply requests the remediation service has   *)
(* handled, from one session or from several, the summary of its tracker   *)
(* holds three pairwise disjoint sequences in which no rule id is          *)
(* repeated.                                                               *)
(***************************************************************************)
C26_SummaryDisjointNoRepeat ==
    NoDuplicates(get_summary.applied \o get_summary.skipped
                    \o get_summary.failed)

\* the decision a line typed at the gate spells
DecisionOf(line) ==
    CASE line \in {"apply", "a"} -> "apply"
      [] line \in {"skip", "s"}  -> "skip"
      [] line \in {"quit", "q"}  -> "quit"
      [] OTHER                   -> "none"

(***************************************************************************)
(* C27: at the approval gate every operator front end lets the operator    *)
(* supply each of apply, skip and quit: a line that spells one of the      *)
(* three decisions is never refused by the prompt, and the decisions       *)
(* posted or acted on are among the three.                                 *)
(***************************************************************************)
C27_GateTakesEveryDecision ==
    /\ \A k \in DOMAIN rejected : DecisionOf(rejected[k]) = "none"
    /\ \A k \in DOMAIN approvals : approvals[k].decision \in Decisions
    /\ \A k \in DOMAIN decisions : decisions[k] \in Decisions

(***************************************************************************)
(* C28: a line at the approval gate that is none of apply, skip, quit (nor *)
(* their one-letter forms, nor Enter for the default) is rejected: the     *)
(* session stays at the gate with the same pending finding, no rule id is  *)
(* recorded, no playbook is written or run, no apply request is sent, and  *)
(* the prompt asks again; only apply, skip and quit are ever acted on.     *)
(***************************************************************************)
C28_InvalidDecisionRejected ==
    /\ [](\A k \in DOMAIN decisions : decisions[k] \in Decisions)
    /\ [](\A k \in DOMAIN rejected : DecisionOf(rejected[k]) = "none")
    /\ [][rejected' # rejected =>
            /\ pc = "gate" /\ pc' = "gate"
            /\ pending # NoPending
            /\ UNCHANGED <<pending, i, findings, decisions, applied, skipped,
                           failed, playbooks, runs, apply_requests,
                           svc_applied, svc_failed, history>>]_vars

\* a line was refused and the first finding is still pending, undecided
C28_Witness ==
    /\ Len(rejected) = 1
    /\ pc = "gate"
    /\ pending = [idx |-> 1, rule_id |-> findings[1].rule_id]
    /\ decisions = <<>>
    /\ Recorded = <<>>
    /\ runs = <<>>

\* the baseline scan has been taken over by the session
BaselineTaken == pc \notin {"start", "post_scan", "poll_scan", "exit1", "crashed"}
                    \/ (pc = "crashed" /\ error.at \notin {"poll_scan", "scan"})

(***************************************************************************)
(* C29: findings reach the approval gate in exactly the parser's order:    *)
(* the k-th finding presented is the k-th element of the list the parser   *)
(* returned, each is presented at most once, and the list the session      *)
(* holds is the job's list, never reordered or filtered again.             *)
(***************************************************************************)
C29_PresentedInParserOrder ==
    /\ [](pending # NoPending =>
            /\ pending.idx = Len(decisions) + 1
            /\ pending.idx \in DOMAIN findings
            /\ pending.rule_id = findings[pending.idx].rule_id)
    /\ []((BaselineTaken /\ mode = "distributed") => findings = jobs[1].findings)
    /\ [](\A a, b \in DOMAIN findings :
             a < b => Rank(findings[a]) >= Rank(findings[b]))
    /\ [][BaselineTaken => findings' = findings]_vars
    /\ [][(pending' # pending /\ pending' # NoPending) =>
             /\ pending = NoPending
             /\ pending'.idx = Len(decisions) + 1
             /\ Len(decisions') = Len(decisions)]_vars
    /\ [][decisions' # decisions =>
             /\ pending # NoPending
             /\ Len(decisions') = pending.idx]_vars

\* the second of two different findings is at the gate, after the first
C29_Witness ==
    /\ pc = "gate"
    /\ Len(findings) = 2
    /\ findings[1].rule_id # findings[2].rule_id
    /\ Rank(findings[1]) > Rank(findings[2])
    /\ Len(decisions) = 1
    /\ pending = [idx |-> 2, rule_id |-> findings[2].rule_id]

(***************************************************************************)
(* C30: whenever the baseline scan completes (poll_scan returns the        *)
(* completed job, or the local front end has parsed its report) the        *)
(* session records before_score and appends exactly one ledger entry with  *)
(* an empty applied list, before any triage, approval or remediation; this *)
(* also when the scan yields no finding at the configured floor.           *)
(***************************************************************************)
C30_BaselineRecordedOnce ==
    /\ [][(~BaselineTaken /\ BaselineTaken') =>
             /\ Len(history') = Len(history) + 1
             /\ history'[Len(history')].applied_fixes = <<>>
             /\ history'[Len(history')].score = before_score'.score
             /\ history'[Len(history')].fail_count = before_score'.fail
             /\ decisions' = <<>> /\ runs' = <<>>]_vars
    /\ [](BaselineTaken => Len(history) = 1)

(***************************************************************************)
(* C31: in Validating the re-scan completes first, after_score is that     *)
(* scan's score, the second ledger entry is built from that scan with the  *)
(* session's applied list, and the executive summary is requested only     *)
(* with that entry in place; a failed summary request leaves the entry;    *)
(* after_score is never set in a session that did not post the re-scan.    *)
(***************************************************************************)
C31_ValidatingInOrder ==
    /\ (after_score.present \/ Len(history) >= 2) =>
          /\ pc \in {"final_report", "done", "crashed"}
          /\ Len(jobs) = 2
          /\ jobs[2].status = "complete"
          /\ after_score = jobs[2].score
          /\ Len(history) = 2
          /\ history[2] = LedgerEntry(after_score, jobs[2].findings, applied)
          /\ history[2].applied_fixes = applied
          /\ applied # <<>>
    /\ pc = "final_report" => (after_score.present /\ Len(history) = 2)
    /\ (pc = "crashed" /\ error.at = "final_report") =>
          (after_score.present /\ Len(history) = 2)
    /\ ~RescanPosted => (after_score = EmptyScore /\ Len(history) <= 1)
    /\ pc = "poll_rescan" => (after_score = EmptyScore /\ Len(history) = 1)

\* the summary request failed after the second entry was appended
C31_Witness ==
    /\ pc = "crashed"
    /\ error.at = "final_report"
    /\ Len(history) = 2
    /\ history[2].applied_fixes = applied
    /\ applied # <<>>
    /\ after_score = jobs[2].score

\* an engine call of the per-finding loop has failed
LoopCallFailed(e) == e.at \in {"analyze", "generate"}

(***************************************************************************)
(* C32: when the analysis or the remediation request of the per-finding    *)
(* loop fails, the session stops: the step that fails changes none of      *)
(* applied, skipped, failed, no decision is taken and nothing is run for   *)
(* the current finding or a later one, the failure's message is kept, and  *)
(* nothing changes afterwards.                                             *)
(***************************************************************************)
C32_LoopFailureFreezesSession ==
    /\ []((pc = "crashed" /\ LoopCallFailed(error)) =>
            /\ error.msg # <<>>
            /\ pending = NoPending
            /\ i \in DOMAIN findings
            /\ Len(decisions) = i - 1
            /\ Len(Recorded) <= i - 1
            /\ \A k \in DOMAIN runs : runs[k].idx < i)
    /\ [][(pc' = "crashed" /\ LoopCallFailed(error')) =>
            UNCHANGED <<applied, skipped, failed, decisions, pending, i,
                        runs, playbooks, apply_requests, history>>]_vars
    /\ [][(pc = "crashed" /\ LoopCallFailed(error)) =>
            UNCHANGED <<sessionVars, serviceVars>>]_vars

\* the remediation request for the second finding failed after the first
\* finding had been applied
C32_Witness ==
    /\ pc = "crashed"
    /\ error.at = "generate"
    /\ error.msg # <<>>
    /\ i = 2
    /\ Len(applied) = 1
    /\ Len(runs) = 1
    /\ pending = NoPending

\* the rule ids of the failing rule-results of severity sev, in report order
ReportIdsOf(sev) ==
    LET rs == SelectSeq(FailResults, LAMBDA rr : SeverityOf(report, rr) = sev)
    IN  [k \in DOMAIN rs |-> RuleIdOf(rs[k])]
Severities == {"CAT I", "CAT II", "CAT III"}

(***************************************************************************)
(* C33: within one severity band parse_results keeps the order of the      *)
(* report: the findings of a severity that meets the floor are, read in    *)
(* output order, the failing rule-results of that severity read in report  *)
(* order.                                                                  *)
(***************************************************************************)
C33_BandKeepsReportOrder ==
    ParserDone =>
        \A sev \in Severities :
           RuleIdsOf(SelectSeq(parsed, LAMBDA f : f.severity = sev))
             = IF meets_severity(sev, floor) THEN ReportIdsOf(sev) ELSE <<>>

\* r2 then r1, both CAT III, then a CAT I failure: the CAT I finding comes
\* first and r2 stays before r1
C33_Witness ==
    /\ ParserDone
    /\ floor = "ALL"
    /\ Len(report.results) = 3
    /\ ReportIdsOf("CAT III") = <<"r2", "r1">>
    /\ SeverityOf(report, report.results[3]) = "CAT I"
    /\ parsed[1].severity = "CAT I"
    /\ RuleIdsOf(SubSeq(parsed, 2, 3)) = <<"r2", "r1">>

(***************************************************************************)
(* C34: every finding of the parser has severity CAT I, CAT II or CAT III: *)
(* raw high gives CAT I, medium CAT II, low CAT III, whatever the case of  *)
(* the letters, and any other or missing raw severity gives CAT II.        *)
(***************************************************************************)
C34_SeverityIsOneOfThree ==
    ParserDone =>
        /\ \A k \in DOMAIN parsed : parsed[k].severity \in Severities
        /\ floor = "ALL" =>
              /\ Len(parsed) = Len(report.results)
              /\ \A sev \in Severities :
                    CountSeverity(parsed, sev)
                      = Cardinality({k \in DOMAIN report.results :
                           LET raw == report.results[k].severity
                           IN  CASE sev = "CAT I"   -> raw = "HIGH"
                                 [] sev = "CAT II"  -> raw \in {"Medium", "critical", NoAttr}
                                 [] sev = "CAT III" -> raw = "low"})

\* HIGH, an unknown word and an absent attribute: one CAT I, two CAT II
C34_Witness ==
    /\ ParserDone
    /\ floor = "ALL"
    /\ {report.results[k].severity : k \in DOMAIN report.results}
          = {"HIGH", "critical", NoAttr}
    /\ Len(report.results) = 3
    /\ CountSeverity(parsed, "CAT I") = 1
    /\ CountSeverity(parsed, "CAT II") = 2

(***************************************************************************)
(* C35: every finding parse_results returns has a non-empty rule_id and no *)
(* two findings of one result share a rule_id, also for reports whose      *)
(* rule-results repeat an identifier or carry none.                        *)
(***************************************************************************)
C35_RuleIdsNonEmptyAndUnique ==
    ParserDone =>
        /\ \A k \in DOMAIN parsed : parsed[k].rule_id # ""
        /\ NoDuplicates(RuleIdsOf(parsed))

\* one step of a job's status
JobStep(a, b) ==
    \/ a.status = "queued" /\ b.status = "running"
    \/ a.status = "running" /\ b.status \in {"complete", "error"}

DecidedAs(d) == {k \in DOMAIN decisions : decisions[k] = d}

(***************************************************************************)
(* C37: a playbook is run for a finding only after the operator chose      *)
(* apply at that finding's gate: every run belongs to a position of the    *)
(* finding list whose decision is apply and carries that finding's rule    *)
(* id; a finding that was skipped, that was at the gate when quit was      *)
(* chosen or that was never presented has no run; and no finding has two.  *)
(***************************************************************************)
C37_AppliedOnlyAfterApply ==
    /\ \A k \in DOMAIN runs :
          /\ runs[k].idx \in DecidedAs("apply")
          /\ runs[k].rule_id = findings[runs[k].idx].rule_id
    /\ \A a, b \in DOMAIN runs : a # b => runs[a].idx # runs[b].idx
    /\ {runs[k].idx : k \in DOMAIN runs} = DecidedAs("apply")
    /\ Len(playbooks) = Len(runs)
    /\ Len(applied) + Len(failed) <= Len(runs)

\* skip, then apply: one run, for the second finding
C37_Witness ==
    /\ Len(findings) >= 2
    /\ decisions = <<"skip", "apply">>
    /\ Len(runs) = 1
    /\ runs[1].idx = 2
    /\ runs[1].rule_id = findings[2].rule_id
    /\ pc = "applying"

\* what the text shown at the gate says is to be run
ShownContent(text) ==
    IF text.kind = "mapping" THEN [kind |-> "seq", items |-> <<text>>]
    ELSE text

AwaitingLostDecision ==
    /\ DockerLooping
    /\ session.phase = "remediating"
    /\ session.pending # 0
    /\ session.decision = "none"
    /\ last_pending = session.pending

(***************************************************************************)
(* C39: in docker mode no operator decision is lost: a decision entered at *)
(* the prompt is taken by the orchestrator, or the same pending approval   *)
(* is prompted again; the client does not stay in the remediating phase    *)
(* forever on a pending approval it will not prompt for again.             *)
(***************************************************************************)
C39_NoDecisionLost == AwaitingLostDecision ~> ~AwaitingLostDecision


\* the three per-severity counts of a ledger entry, and their sum
SeverityCounts(e) == <<e.cat1_fails, e.cat2_fails, e.cat3_fails>>
SeverityCountsOf(fs) ==
    <<Len(SelectSeq(fs, LAMBDA f : f.severity = "CAT I")),
      Len(SelectSeq(fs, LAMBDA f : f.severity = "CAT II")),
      Len(SelectSeq(fs, LAMBDA f : f.severity = "CAT III"))>>
SeverityTotal(e) == e.cat1_fails + e.cat2_fails + e.cat3_fails

(***************************************************************************)
(* C40: in every ledger entry the per-severity failure counts are those of *)
(* the findings handed to that record_scan call alone (the first entry     *)
(* counts the baseline findings; behind the orchestrator the k-th entry    *)
(* counts the findings of the k-th scan, nothing carried over), and        *)
(* cat1_fails + cat2_fails + cat3_fails is at most the entry's fail_count, *)
(* score and findings coming from the same scan.                           *)
(***************************************************************************)
C40_SeverityCountsWithinFailCount ==
    \A k \in DOMAIN history :
        /\ SeverityTotal(history[k]) <= history[k].fail_count
        /\ k = 1 => SeverityCounts(history[k]) = SeverityCountsOf(findings)
        /\ mode = "distributed" =>
              /\ k <= Len(jobs)
              /\ SeverityCounts(history[k]) = SeverityCountsOf(jobs[k].findings)
              /\ history[k].fail_count = jobs[k].score.fail

\* baseline and re-scan are both recorded; the baseline has a failure below
\* the severity floor, so its counts are positive and short of fail_count,
\* and the re-scan's counts differ from the baseline's
C40_Witness ==
    /\ Len(history) = 2
    /\ SeverityTotal(history[1]) > 0
    /\ SeverityTotal(history[1]) < history[1].fail_count
    /\ SeverityCounts(history[2]) # SeverityCounts(history[1])

====
